---- MODULE Spec2Model ----
(***************************************************************************)
(* Session lifecycle and protocol dispatch of the Waitrose client.         *)
(*                                                                         *)
(*   Spec      the library: WaitroseClient (waitrose.ts) driven by one     *)
(*             caller, call after call; a call is suspended at its await   *)
(*             of fetch until the backend has answered.                    *)
(*   SpecAuth  one CLI process running commands through runWithAuth        *)
(*             (withAuth of src/auth.ts) on one WaitroseClient.            *)
(*                                                                         *)
(* Strings that the code only stores and compares are opaque values;       *)
(* strings that the code builds and searches (error messages) are          *)
(* sequences of tokens, built the way the template literals build them.    *)
(***************************************************************************)
EXTENDS Integers, Sequences, FiniteSets, TLC

\* ------------------------------------------------------------------------
\* Bounds
\* ------------------------------------------------------------------------

\* number of distinct sessions the backend hands out
MaxSessions == 2

\* length of the componentsAndProducts list of a search envelope
MaxItems == 3

\* ------------------------------------------------------------------------
\* Values
\* ------------------------------------------------------------------------

\* the JavaScript null held by a session field before login / after logout
Null == <<>>

\* the callers that may share one client
Tasks == {"t1", "t2"}

\* the single logical caller of Spec: login and logout are invoked one
\* after the other
Callers == {"t1"}

SessionIds == 1..MaxSessions

\* the payload of a NewSession response: every field of one login response
\* carries that response's own values
SessionOf(i) ==
  [accessToken     |-> <<"accessToken", i>>,
   refreshToken    |-> <<"refreshToken", i>>,
   customerId      |-> <<"customerId", i>>,
   customerOrderId |-> <<"customerOrderId", i>>,
   defaultBranchId |-> <<"defaultBranchId", i>>]

\* the session fields of a data payload (a payload without them reads as
\* null fields)
SessionFields(payload) ==
  IF payload.sid = 0
  THEN [accessToken |-> Null, refreshToken |-> Null, customerId |-> Null,
        customerOrderId |-> Null, defaultBranchId |-> Null]
  ELSE SessionOf(payload.sid)

\* ApiFailure { type, message }; a message is a sequence of tokens
ApiFailure(type, message) == [type |-> type, message |-> message]

\* the failure lists a response may nest in its data payload (null and []
\* behave alike under `failures?.length`, both are the empty sequence here)
FailureLists ==
  { <<>>,
    << ApiFailure("AUTH", <<"Invalid", "credentials">>) >>,
    << ApiFailure("AUTH", <<"Account", "locked">>),
       ApiFailure("AUTH", <<"401">>) >> }

\* the data payload of a 2xx GraphQL body: the id of the session it carries
\* (0: no session fields) and the nested failure list
Payload(sid, failures) == [sid |-> sid, failures |-> failures]

NoPayload == Payload(0, <<>>)

\* the top-level errors arrays of a GraphQL body
ErrorLists ==
  { <<>>,
    << [message |-> <<"UNAUTHENTICATED">>] >>,
    << [message |-> <<"Syntax">>], [message |-> <<"Timeout">>] >> }

\* raw bodies of non-2xx responses
Texts == { <<>>, <<"Unauthorized">>, <<"Internal", "Server", "Error">> }

Statuses == {200, 401, 500}

\* a status check that lets server errors through
ResponseOk_Below500(status) == status >= 200 /\ status <= 500

\* Response.ok of fetch: the status is in the range 200-299
ResponseOk(status) == status >= 200 /\ status <= 299

\* the decimal rendering of the status inside a template literal
StatusStr(status) ==
  CASE status = 200 -> "200"
    [] status = 401 -> "401"
    [] status = 500 -> "500"

\* xs.map(e => e.message).join(", ")
RECURSIVE JoinMessages(_)
JoinMessages(xs) ==
  IF Len(xs) = 0 THEN <<>>
  ELSE IF Len(xs) = 1 THEN xs[1].message
  ELSE xs[1].message \o <<",">> \o JoinMessages(Tail(xs))

\* the raw text of a JSON body whose top-level errors array is `errors`
JsonText(errors) == <<"{", "errors", ":">> \o JoinMessages(errors) \o <<"}">>

\* what fetch may resolve to for a GraphQL request whose 2xx data payload
\* is drawn from `payloads`; the body of a non-2xx response is plain text or
\* a JSON body with an errors array
GraphqlResponses(payloads) ==
  { [status |-> s, text |-> t, errors |-> <<>>, data |-> NoPayload] :
      s \in {st \in Statuses : ~ResponseOk(st)}, t \in Texts }
  \cup
  { [status |-> s, text |-> JsonText(e), errors |-> e, data |-> NoPayload] :
      s \in {st \in Statuses : ~ResponseOk(st)}, e \in ErrorLists \ {<<>>} }
  \cup
  { [status |-> s, text |-> <<>>, errors |-> e, data |-> d] :
      s \in {st \in Statuses : ResponseOk(st)}, e \in ErrorLists, d \in payloads }

\* NewSession bodies: a body without failures carries a full session, a body
\* with failures may or may not carry session fields
LoginPayloads ==
  { Payload(i, <<>>) : i \in SessionIds }
  \cup { Payload(i, f) : i \in {0} \cup SessionIds, f \in FailureLists \ {<<>>} }

\* DeleteSession bodies
LogoutPayloads == { NoPayload }

\* the operations a command hands to runWithAuth: a query whose payload has
\* no failure list, and a mutation whose payload nests one
Operations == {"GetAccountInfoAndMembership", "CancelOrder"}

\* the GraphQL operations a caller of the client invokes: those of the
\* commands and getTrolley, whose payload nests a failure list that the
\* method hands back untouched
ClientOperations == Operations \cup {"GetTrolley"}

\* the slot and campaign operations of the client: a mutation whose payload
\* nests a failure list, and a query whose payload has none
SlotOperations == {"BookSlot", "GetCampaigns"}

\* the trolley mutations of the client; their payload is a trolley, which
\* nests a failure list
TrolleyMutations == {"UpdateTrolleyItems", "EmptyTrolley"}

\* bodies of the operations
OperationPayloads(query) ==
  IF query \in {"CancelOrder", "GetTrolley", "BookSlot"} \cup TrolleyMutations
  THEN { Payload(0, f) : f \in FailureLists }
  ELSE { NoPayload }

\* the two queries of getOrders
OrderQueries == {"GetPendingOrders", "GetPreviousOrders"}

\* the orders the backend lists under a query
OrdersOf(query) ==
  IF query = "GetPendingOrders" THEN <<"pendingOrder">> ELSE <<"previousOrder">>

\* the data payload of an orders query: `pendingOrders` / `previousOrders`
\* with a content array, or without one (null)
OrdersPayload(present, content) == [present |-> present, content |-> content]

OrdersPayloads(query) ==
  { OrdersPayload(FALSE, <<>>), OrdersPayload(TRUE, <<>>),
    OrdersPayload(TRUE, OrdersOf(query)) }

\* SearchProduct payloads
Products == {"product1", "product2"}

\* the searchProduct of an element that has none (undefined)
NoProduct == "undefined"

\* the elements of componentsAndProducts: a product wrapper or another
\* component
Items == { [searchProduct |-> p] : p \in Products \cup {NoProduct} }

\* the sequences over a set of at most n elements
SeqsUpTo(S, n) == UNION { [1..k -> S] : k \in 0..n }

TotalMatches == {0, 7}

\* the raw envelope of the search API; componentsAndProducts is optional
RawEnvelope(totalMatches, present, items) ==
  [totalMatches |-> totalMatches, present |-> present, componentsAndProducts |-> items]

RawEnvelopes ==
  { RawEnvelope(n, TRUE, items) : n \in TotalMatches, items \in SeqsUpTo(Items, MaxItems) }
  \cup { RawEnvelope(n, FALSE, <<>>) : n \in TotalMatches }

\* what fetch may resolve to for a request of the search API
RestResponses ==
  { [status |-> s, text |-> t, errors |-> <<>>, data |-> NoPayload] :
      s \in {st \in Statuses : ~ResponseOk(st)}, t \in Texts }
  \cup
  { [status |-> s, text |-> <<>>, errors |-> <<>>, data |-> raw] :
      s \in {st \in Statuses : ResponseOk(st)}, raw \in RawEnvelopes }

\* the body of the products API: a products array, or none
ProductsPayload(present, products) == [present |-> present, products |-> products]

ProductsResponses ==
  { [status |-> s, text |-> t, errors |-> <<>>, data |-> NoPayload] :
      s \in {st \in Statuses : ~ResponseOk(st)}, t \in Texts }
  \cup
  { [status |-> s, text |-> <<>>, errors |-> <<>>, data |-> d] :
      s \in {st \in Statuses : ResponseOk(st)},
      d \in {ProductsPayload(FALSE, <<>>), ProductsPayload(TRUE, <<"product1">>)} }

\* what fetch may resolve to for the request of a query
ResponsesFor(query) ==
  CASE query = "NewSession" -> GraphqlResponses(LoginPayloads)
    [] query = "DeleteSession" -> GraphqlResponses(LogoutPayloads)
    [] query \in ClientOperations -> GraphqlResponses(OperationPayloads(query))
    [] query \in SlotOperations -> GraphqlResponses(OperationPayloads(query))
    [] query \in TrolleyMutations -> GraphqlResponses(OperationPayloads(query))
    [] query \in OrderQueries -> GraphqlResponses(OrdersPayloads(query))
    [] query \in {"search", "browse"} -> RestResponses
    [] query = "products" -> ProductsResponses
    [] OTHER -> {}

\* ------------------------------------------------------------------------
\* Results of a call: a returned value or a thrown Error(message)
\* ------------------------------------------------------------------------

Return(val) == [ok |-> TRUE, msg |-> <<>>, val |-> val]

Throw(msg) == [ok |-> FALSE, msg |-> msg, val |-> NoPayload]

NoResult == [ok |-> TRUE, msg |-> <<"none">>, val |-> NoPayload]

\* the outcome of runWithAuth: "ok" with the operation's value, or the kind
\* of the error it failed with and that error's message
Outcome(kind, msg, val) == [kind |-> kind, msg |-> msg, val |-> val]

NoOutcome == Outcome("none", <<>>, NoPayload)

\* no response has arrived yet
NoResponse == [status |-> 0, text |-> <<>>, errors |-> <<>>, data |-> NoPayload]

\* ------------------------------------------------------------------------
\* State
\* ------------------------------------------------------------------------

VARIABLES
  accessToken,      \* WaitroseClient.accessToken
  refreshToken,     \* WaitroseClient.refreshToken
  customerId,       \* WaitroseClient.customerId
  customerOrderId,  \* WaitroseClient.customerOrderId
  defaultBranchId,  \* WaitroseClient.defaultBranchId
  pc,               \* Spec: per caller, the await it is suspended at
  req,              \* Spec: per caller, the last request it sent
  rsp,              \* Spec: per caller, the response fetch resolves with
  ret,              \* Spec: per caller, the outcome of its last call
  orders,           \* Spec: per caller, the two fetches of its getOrders call
  live,             \* Spec: the session (its id) that the last login to return installed, 0 if none or since a logout returned
  ended,            \* Spec: the sessions (their ids) that were held when a logout returned
  expired,          \* Spec: the lifetime (expiresIn) of the session `live` has run out
  wpc,              \* SpecAuth: the stage runWithAuth is suspended at
  wop,              \* SpecAuth: the operation runWithAuth was called with
  trace,            \* SpecAuth: the network calls the current runWithAuth has completed
  wres,             \* SpecAuth: the outcome of the last runWithAuth
  wprev,            \* SpecAuth: the kind of the outcome of the runWithAuth call before the current one
  config,           \* SpecAuth: the record held by the ConfigStore
  env,              \* SpecAuth: process.env, the variables the CLI reads
  proc,             \* SpecCli: the CLI process that ran last: its command, exit code and output
  expiresAt,        \* SpecCli: config.expiresAt in milliseconds, 0 when the config has none
  now               \* SpecClock: Date.now() in milliseconds

client == <<accessToken, refreshToken, customerId, customerOrderId, defaultBranchId>>

vars == <<accessToken, refreshToken, customerId, customerOrderId, defaultBranchId,
          pc, req, rsp, ret, orders, live, ended, expired,
          wpc, wop, trace, wres, wprev, config, env, proc, expiresAt, now>>

auth == <<wpc, wop, trace, wres, wprev, config, env, proc, expiresAt, now>>

\* the record of the sessions the client has been through
hist == <<live, ended, expired>>

\* the field initialisers of the class
ClientInit ==
  /\ accessToken = Null
  /\ refreshToken = Null
  /\ customerId = Null
  /\ customerOrderId = Null
  /\ defaultBranchId = Null

\* ------------------------------------------------------------------------
\* WaitroseClient
\* ------------------------------------------------------------------------

\* the empty string
Empty == <<"">>

\* JavaScript truthiness of a `string | null` field
Truthy(v) == v # Null /\ v # Empty

NoHeader == <<>>

\* graphql, up to the await of fetch: the headers of the request
AuthorizationHeader ==
  IF Truthy(accessToken) THEN <<"Bearer", accessToken>> ELSE NoHeader

GraphqlRequest(query) == [query |-> query, authorization |-> AuthorizationHeader]

NoRequest == [query |-> "none", authorization |-> NoHeader]

\* getTrolley, up to the await of fetch: the request of graphql with the
\* order id in its variables
TrolleyRequest(id) ==
  [query |-> "GetTrolley", authorization |-> AuthorizationHeader, orderId |-> id]

\* restApi that sends no Authorization header
RestRequest_NoAuthorization(endpoint) ==
  [query |-> endpoint,
   authorization |-> NoHeader,
   path |-> IF Truthy(customerId) THEN customerId ELSE <<"-1">>,
   branchId |-> IF Truthy(defaultBranchId) THEN defaultBranchId ELSE Null]

\* searchProducts / browseProducts and restApi, up to the await of fetch: the
\* headers, the customer id of the path and the branchId of the query
RestRequest(endpoint) ==
  [query |-> endpoint,
   authorization |-> IF Truthy(accessToken) THEN <<"Bearer", accessToken>> ELSE NoHeader,
   path |-> IF Truthy(customerId) THEN customerId ELSE <<"-1">>,
   branchId |-> IF Truthy(defaultBranchId) THEN defaultBranchId ELSE Null]

\* getProductsByLineNumbers, up to the await of fetch
ProductsRequest ==
  [query |-> "products",
   authorization |-> IF Truthy(accessToken) THEN <<"Bearer", accessToken>> ELSE NoHeader,
   branchId |-> IF Truthy(defaultBranchId) THEN defaultBranchId ELSE Null]

\* graphql whose transport error leaves the status code out of the message
GraphqlResult_NoStatus(response) ==
  IF ~ResponseOk(response.status)
  THEN Throw(<<"HTTP", ":">> \o response.text)
  ELSE IF Len(response.errors) > 0
       THEN Throw(<<"GraphQL", "Error", ":">> \o JoinMessages(response.errors))
       ELSE Return(response.data)

\* graphql that looks at the errors array before the status
GraphqlResult_ErrorsFirst(response) ==
  IF Len(response.errors) > 0
  THEN Throw(<<"GraphQL", "Error", ":">> \o JoinMessages(response.errors))
  ELSE IF ~ResponseOk(response.status)
       THEN Throw(<<"HTTP", StatusStr(response.status), ":">> \o response.text)
       ELSE Return(response.data)

\* graphql that returns the body whatever its errors array holds
GraphqlResult_IgnoresErrors(response) ==
  IF ~ResponseOk(response.status)
  THEN Throw(<<"HTTP", StatusStr(response.status), ":">> \o response.text)
  ELSE Return(response.data)

\* graphql, after the await of fetch: decoding of the response
GraphqlResult(response) ==
  IF ~ResponseOk(response.status)
  THEN Throw(<<"HTTP", StatusStr(response.status), ":">> \o response.text)
  ELSE IF Len(response.errors) > 0
       THEN Throw(<<"GraphQL", "Error", ":">> \o JoinMessages(response.errors))
       ELSE Return(response.data)

\* login without the failure list check
LoginResult_NoFailureCheck(response) ==
  GraphqlResult(response)

\* login, after the await of graphql: the failure list check
LoginResult(response) ==
  LET result == GraphqlResult(response) IN
  IF ~result.ok THEN result
  ELSE IF Len(result.val.failures) > 0
       THEN Throw(<<"Login", "failed", ":">> \o JoinMessages(result.val.failures))
       ELSE Return(result.val)

\* login that forgets to store the access token
LoginInstall_NoToken(session) ==
  /\ UNCHANGED accessToken
  /\ refreshToken' = session.refreshToken
  /\ customerId' = session.customerId
  /\ customerOrderId' = session.customerOrderId
  /\ defaultBranchId' = session.defaultBranchId

\* login that patches the tokens and keeps the shopping context it holds
LoginInstall_Patch(session) ==
  /\ accessToken' = session.accessToken
  /\ refreshToken' = session.refreshToken
  /\ customerId' = IF customerId = Null THEN session.customerId ELSE customerId
  /\ customerOrderId' = IF customerOrderId = Null THEN session.customerOrderId ELSE customerOrderId
  /\ defaultBranchId' = IF defaultBranchId = Null THEN session.defaultBranchId ELSE defaultBranchId

\* login: the five assignments from the response's session
LoginInstall(session) ==
  /\ accessToken' = session.accessToken
  /\ refreshToken' = session.refreshToken
  /\ customerId' = session.customerId
  /\ customerOrderId' = session.customerOrderId
  /\ defaultBranchId' = session.defaultBranchId

\* logout that leaves the access token in place
LogoutClear_KeepToken ==
  /\ UNCHANGED accessToken
  /\ refreshToken' = Null
  /\ customerId' = Null
  /\ customerOrderId' = Null
  /\ UNCHANGED defaultBranchId

\* logout that leaves the customer id in place
LogoutClear_KeepCustomer ==
  /\ accessToken' = Null
  /\ refreshToken' = Null
  /\ UNCHANGED customerId
  /\ customerOrderId' = Null
  /\ UNCHANGED defaultBranchId

\* logout: the assignments after the await of graphql
LogoutClear ==
  /\ accessToken' = Null
  /\ refreshToken' = Null
  /\ customerId' = Null
  /\ customerOrderId' = Null
  /\ UNCHANGED defaultBranchId

\* isAuthenticated that answers true without looking at the token
isAuthenticated_Always == TRUE

\* isAuthenticated that answers false without looking at the token
isAuthenticated_Never == FALSE

\* isAuthenticated that looks at the expiry of the session
isAuthenticated_Unexpired == Truthy(accessToken) /\ ~expired

isAuthenticated == Truthy(accessToken)

\* cancelOrder that tests `failures` instead of `failures?.length`: an empty
\* list is truthy, so it throws on every 2xx body
OperationResult_CancelAlwaysFails(query, response) ==
  LET result == GraphqlResult(response) IN
  IF ~result.ok THEN result
  ELSE IF query = "CancelOrder"
       THEN Throw(<<"Cancel", "failed", ":">> \o JoinMessages(result.val.failures))
       ELSE Return(result.val)

\* cancelOrder without the check of the nested failure list
OperationResult_NoFailureCheck(query, response) ==
  GraphqlResult(response)

\* an operation of the client: graphql, then for cancelOrder the check of the
\* nested failure list
OperationResult(query, response) ==
  LET result == GraphqlResult(response) IN
  IF ~result.ok THEN result
  ELSE IF query = "CancelOrder" /\ Len(result.val.failures) > 0
       THEN Throw(<<"Cancel", "failed", ":">> \o JoinMessages(result.val.failures))
       ELSE Return(result.val)

\* bookSlot / getCampaigns: graphql, then for bookSlot the check of the
\* nested failure list
SlotResult(query, response) ==
  LET result == GraphqlResult(response) IN
  IF ~result.ok THEN result
  ELSE IF query = "BookSlot" /\ Len(result.val.failures) > 0
       THEN Throw(<<"Book", "slot", "failed", ":">> \o JoinMessages(result.val.failures))
       ELSE Return(result.val)

\* the loop of restApi that skips a product it has pushed already
RECURSIVE PushProducts_Dedup(_, _, _)
PushProducts_Dedup(items, i, products) ==
  IF i > Len(items) THEN products
  ELSE PushProducts_Dedup(items, i + 1,
                          IF /\ items[i].searchProduct # NoProduct
                             /\ \A j \in 1..Len(products) : products[j] # items[i].searchProduct
                          THEN Append(products, items[i].searchProduct)
                          ELSE products)

\* restApi: the loop over componentsAndProducts, from element i on, pushing
\* onto `products`
RECURSIVE PushProducts(_, _, _)
PushProducts(items, i, products) ==
  IF i > Len(items) THEN products
  ELSE PushProducts(items, i + 1,
                    IF items[i].searchProduct # NoProduct
                    THEN Append(products, items[i].searchProduct)
                    ELSE products)

\* restApi, after the await of fetch: decoding and mapping of the envelope
RestResult(response) ==
  IF ~ResponseOk(response.status)
  THEN Throw(<<"HTTP", StatusStr(response.status), ":">> \o response.text)
  ELSE Return([products |-> IF response.data.present
                            THEN PushProducts(response.data.componentsAndProducts, 1, <<>>)
                            ELSE <<>>,
               totalMatches |-> response.data.totalMatches])

\* getProductsByLineNumbers, after the await of fetch: `result.products || []`
ProductsResult(response) ==
  IF ~ResponseOk(response.status)
  THEN Throw(<<"HTTP", StatusStr(response.status), ":">> \o response.text)
  ELSE Return([products |-> IF response.data.present THEN response.data.products ELSE <<>>])

\* getPendingOrders / getPreviousOrders, after the await of graphql:
\* `?.content || []`
OrdersContent(response) ==
  LET result == GraphqlResult(response) IN
  IF ~result.ok THEN result
  ELSE Return([content |-> IF result.val.present THEN result.val.content ELSE <<>>])

\* getOrders that destructures the array the other way round
OrdersResult_Swapped(outs) ==
  Return([pending |-> outs["GetPreviousOrders"].val.content,
          previous |-> outs["GetPendingOrders"].val.content])

\* getOrders, after Promise.all: the array destructured in the order the
\* promises were passed
OrdersResult(outs) ==
  Return([pending |-> outs["GetPendingOrders"].val.content,
          previous |-> outs["GetPreviousOrders"].val.content])

\* one of the two fetches of getOrders: not started, in flight, or done
\* with the result of its method
NoFetch == [pc |-> "idle", req |-> NoRequest, rsp |-> NoResponse, out |-> NoResult]

\* no getOrders in progress; `first` is the query that completed first
NoOrders == [sub |-> [q \in OrderQueries |-> NoFetch], first |-> "none"]

\* ------------------------------------------------------------------------
\* ConfigStore and environment
\* ------------------------------------------------------------------------

\* the environment variables the CLI reads
EnvNames == {"WAITROSE_ACCESS_TOKEN", "WAITROSE_TOKEN", "WAITROSE_USERNAME",
             "WAITROSE_EMAIL", "WAITROSE_PASSWORD"}

\* an environment: each variable is unset (undefined, here Null) or set to a
\* non-empty string
Envs == [EnvNames -> {Null, <<"set">>}]

NoEnv == [n \in EnvNames |-> Null]

\* a || b on values that are unset or non-empty strings
OrElse(a, b) == IF a # Null THEN a ELSE b

\* getCredentialsFromEnv that does not read WAITROSE_TOKEN
getCredentialsFromEnv_NoTokenAlias ==
  [accessToken |-> env["WAITROSE_ACCESS_TOKEN"],
   username    |-> OrElse(env["WAITROSE_USERNAME"], env["WAITROSE_EMAIL"]),
   password    |-> env["WAITROSE_PASSWORD"]]

getCredentialsFromEnv ==
  [accessToken |-> OrElse(env["WAITROSE_ACCESS_TOKEN"], env["WAITROSE_TOKEN"]),
   username    |-> OrElse(env["WAITROSE_USERNAME"], env["WAITROSE_EMAIL"]),
   password    |-> env["WAITROSE_PASSWORD"]]

\* a CLI process: the command it was started with, whether it runs or has
\* exited, its exit code and what it wrote to the error and output streams
Process(command, state, exit, stderr, stdout) ==
  [command |-> command, state |-> state, exit |-> exit, stderr |-> stderr,
   stdout |-> stdout]

NoProcess == Process("none", "none", 0, <<>>, <<>>)

\* Session.expiresIn: the lifetime in seconds that a login response carries,
\* the 900 of the upstream but for session 2, which carries 120
ExpiresInOf(i) == IF i = 2 THEN 120 ELSE 900

\* an expiresAt that adds the seconds of expiresIn to the milliseconds of
\* Date.now()
ExpiresAtOf_Seconds(payload) == now + ExpiresInOf(payload.sid)

\* the expiresAt that is saved with a session: Date.now() + expiresIn * 1000
ExpiresAtOf(payload) == now + ExpiresInOf(payload.sid) * 1000

\* isTokenExpired that has no 60 second buffer
isTokenExpired_NoBuffer ==
  IF expiresAt = 0 THEN TRUE ELSE now > expiresAt

\* isTokenExpired(config): a config without expiresAt counts as expired, and
\* so does one whose expiresAt is less than 60 seconds away
isTokenExpired ==
  IF expiresAt = 0 THEN TRUE ELSE now > expiresAt - 60000

\* clearConfig: saveConfig({})
NoConfig ==
  [accessToken |-> Null, refreshToken |-> Null, customerId |-> Null,
   customerOrderId |-> Null, defaultBranchId |-> Null]

\* the record saveConfig is given after a login
ConfigOf(session) ==
  [accessToken |-> session.accessToken, refreshToken |-> session.refreshToken,
   customerId |-> session.customerId, customerOrderId |-> session.customerOrderId,
   defaultBranchId |-> session.defaultBranchId]

\* getOrderId that reads the customer id
getOrderId_Customer == customerId

\* getOrderId()
getOrderId == customerOrderId

\* getCustomerId()
getCustomerId == customerId

\* ------------------------------------------------------------------------
\* Spec: one caller on one client
\* ------------------------------------------------------------------------

Init ==
  /\ ClientInit
  /\ pc = [t \in Tasks |-> "idle"]
  /\ req = [t \in Tasks |-> NoRequest]
  /\ rsp = [t \in Tasks |-> NoResponse]
  /\ ret = [t \in Tasks |-> NoResult]
  /\ orders = [t \in Tasks |-> NoOrders]
  /\ live = 0
  /\ ended = {}
  /\ expired = FALSE
  /\ wpc = "idle"
  /\ wop = "none"
  /\ trace = <<>>
  /\ wres = NoOutcome
  /\ wprev = "none"
  /\ config = NoConfig
  /\ env = NoEnv
  /\ proc = NoProcess
  /\ expiresAt = IF config = NoConfig THEN 0 ELSE ExpiresInOf(0) * 1000
  /\ now = 0

\* login that never sends an Authorization header
LoginCall_NoHeader(t) ==
  /\ pc[t] = "idle"
  /\ pc' = [pc EXCEPT ![t] = "login"]
  /\ req' = [req EXCEPT ![t] = [query |-> "NewSession", authorization |-> NoHeader]]
  /\ ret' = [ret EXCEPT ![t] = NoResult]
  /\ UNCHANGED <<client, rsp, orders, hist, auth>>

\* login(username, password) up to its await
LoginCall(t) ==
  /\ pc[t] = "idle"
  /\ pc' = [pc EXCEPT ![t] = "login"]
  /\ req' = [req EXCEPT ![t] = GraphqlRequest("NewSession")]
  /\ ret' = [ret EXCEPT ![t] = NoResult]
  /\ UNCHANGED <<client, rsp, orders, hist, auth>>

\* the backend answers the pending request of a caller
Respond(t, response) ==
  /\ pc[t] # "idle"
  /\ rsp[t] = NoResponse
  /\ rsp' = [rsp EXCEPT ![t] = response]
  /\ UNCHANGED <<client, pc, req, ret, orders, hist, auth>>

\* login that awaits between storing the tokens and storing the rest: the
\* other task may run in between
LoginResume_Split(t) ==
  \/ /\ pc[t] = "login"
     /\ rsp[t] # NoResponse
     /\ LET result == LoginResult(rsp[t]) IN
          IF result.ok
          THEN /\ accessToken' = SessionFields(result.val).accessToken
               /\ refreshToken' = SessionFields(result.val).refreshToken
               /\ pc' = [pc EXCEPT ![t] = "install"]
               /\ UNCHANGED <<customerId, customerOrderId, defaultBranchId, ret, rsp, hist>>
          ELSE /\ ret' = [ret EXCEPT ![t] = result]
               /\ pc' = [pc EXCEPT ![t] = "idle"]
               /\ rsp' = [rsp EXCEPT ![t] = NoResponse]
               /\ UNCHANGED <<client, hist>>
     /\ UNCHANGED <<req, orders, auth>>
  \/ /\ pc[t] = "install"
     /\ customerId' = SessionFields(rsp[t].data).customerId
     /\ customerOrderId' = SessionFields(rsp[t].data).customerOrderId
     /\ defaultBranchId' = SessionFields(rsp[t].data).defaultBranchId
     /\ live' = rsp[t].data.sid
     /\ expired' = FALSE
     /\ ret' = [ret EXCEPT ![t] = Return(rsp[t].data)]
     /\ pc' = [pc EXCEPT ![t] = "idle"]
     /\ rsp' = [rsp EXCEPT ![t] = NoResponse]
     /\ UNCHANGED <<accessToken, refreshToken, req, orders, ended, auth>>

\* login resumed with the response of fetch
LoginResume(t) ==
  /\ pc[t] = "login"
  /\ rsp[t] # NoResponse
  /\ LET result == LoginResult(rsp[t]) IN
       /\ IF result.ok
          THEN /\ LoginInstall(SessionFields(result.val))
               /\ live' = result.val.sid
               /\ expired' = FALSE
          ELSE UNCHANGED <<client, live, expired>>
       /\ ret' = [ret EXCEPT ![t] = result]
  /\ pc' = [pc EXCEPT ![t] = "idle"]
  /\ rsp' = [rsp EXCEPT ![t] = NoResponse]
  /\ UNCHANGED <<req, orders, ended, auth>>

\* logout that clears the local fields before it sends the request
LogoutCall_ClearsFirst(t) ==
  /\ pc[t] = "idle"
  /\ LogoutClear
  /\ pc' = [pc EXCEPT ![t] = "logout"]
  /\ req' = [req EXCEPT ![t] = [query |-> "DeleteSession", authorization |-> NoHeader]]
  /\ ret' = [ret EXCEPT ![t] = NoResult]
  /\ UNCHANGED <<rsp, orders, hist, auth>>

\* logout() up to its await
LogoutCall(t) ==
  /\ pc[t] = "idle"
  /\ pc' = [pc EXCEPT ![t] = "logout"]
  /\ req' = [req EXCEPT ![t] = GraphqlRequest("DeleteSession")]
  /\ ret' = [ret EXCEPT ![t] = NoResult]
  /\ UNCHANGED <<client, rsp, orders, hist, auth>>

\* logout resumed with the response of fetch
LogoutResume(t) ==
  /\ pc[t] = "logout"
  /\ rsp[t] # NoResponse
  /\ LET result == GraphqlResult(rsp[t]) IN
       /\ IF result.ok
          THEN /\ LogoutClear
               /\ live' = 0
               /\ ended' = ended \cup ({live} \ {0})
               /\ expired' = FALSE
          ELSE UNCHANGED <<client, hist>>
       /\ ret' = [ret EXCEPT ![t] = IF result.ok THEN Return(NoPayload) ELSE result]
  /\ pc' = [pc EXCEPT ![t] = "idle"]
  /\ rsp' = [rsp EXCEPT ![t] = NoResponse]
  /\ UNCHANGED <<req, orders, auth>>

\* getAccountInfo() / cancelOrder(id) up to the await of graphql
OperationCall(t, query) ==
  /\ pc[t] = "idle"
  /\ pc' = [pc EXCEPT ![t] = "operation"]
  /\ req' = [req EXCEPT ![t] = GraphqlRequest(query)]
  /\ ret' = [ret EXCEPT ![t] = NoResult]
  /\ UNCHANGED <<client, rsp, orders, hist, auth>>

\* an explicit order id argument
OrderIdArgument == <<"orderId", "argument">>

\* getTrolley that sends its request whatever the order id is
TrolleyCall_SendsWithoutId(t, orderId) ==
  /\ pc[t] = "idle"
  /\ LET id == IF Truthy(orderId) THEN orderId ELSE customerOrderId IN
       /\ pc' = [pc EXCEPT ![t] = "operation"]
       /\ req' = [req EXCEPT ![t] = TrolleyRequest(id)]
       /\ ret' = [ret EXCEPT ![t] = NoResult]
  /\ UNCHANGED <<client, rsp, orders, hist, auth>>

\* getTrolley(orderId?) up to the await of graphql, or to its throw when no
\* order id is available
TrolleyCall(t, orderId) ==
  /\ pc[t] = "idle"
  /\ LET id == IF Truthy(orderId) THEN orderId ELSE customerOrderId IN
       IF ~Truthy(id)
       THEN /\ ret' = [ret EXCEPT ![t] = Throw(<<"No", "order", "ID", "available">>)]
            /\ UNCHANGED <<pc, req>>
       ELSE /\ pc' = [pc EXCEPT ![t] = "operation"]
            /\ req' = [req EXCEPT ![t] = TrolleyRequest(id)]
            /\ ret' = [ret EXCEPT ![t] = NoResult]
  /\ UNCHANGED <<client, rsp, orders, hist, auth>>

\* updateTrolleyItems(items, orderId?) (addToTrolley and removeFromTrolley
\* call it without an order id) and emptyTrolley(orderId?), up to the await
\* of graphql, or to their throw when no order id is available
TrolleyMutationCall(t, query, orderId) ==
  /\ pc[t] = "idle"
  /\ LET id == IF Truthy(orderId) THEN orderId ELSE customerOrderId IN
       IF ~Truthy(id)
       THEN /\ ret' = [ret EXCEPT ![t] = Throw(<<"No", "order", "ID", "available">>)]
            /\ UNCHANGED <<pc, req>>
       ELSE /\ pc' = [pc EXCEPT ![t] = "operation"]
            /\ req' = [req EXCEPT ![t] =
                         [query |-> query, authorization |-> AuthorizationHeader,
                          orderId |-> id]]
            /\ ret' = [ret EXCEPT ![t] = NoResult]
  /\ UNCHANGED <<client, rsp, orders, hist, auth>>

\* an operation that drops the access token when the backend answers 401
OperationResume_DropsToken(t) ==
  /\ pc[t] = "operation"
  /\ rsp[t] # NoResponse
  /\ ret' = [ret EXCEPT ![t] = OperationResult(req[t].query, rsp[t])]
  /\ pc' = [pc EXCEPT ![t] = "idle"]
  /\ rsp' = [rsp EXCEPT ![t] = NoResponse]
  /\ accessToken' = IF rsp[t].status = 401 THEN Null ELSE accessToken
  /\ UNCHANGED <<refreshToken, customerId, customerOrderId, defaultBranchId,
                 req, orders, hist, auth>>

\* the operation resumed with the response of fetch
OperationResume(t) ==
  /\ pc[t] = "operation"
  /\ rsp[t] # NoResponse
  /\ ret' = [ret EXCEPT ![t] = OperationResult(req[t].query, rsp[t])]
  /\ pc' = [pc EXCEPT ![t] = "idle"]
  /\ rsp' = [rsp EXCEPT ![t] = NoResponse]
  /\ UNCHANGED <<client, req, orders, hist, auth>>

\* bookSlot(slotId, slotType) / getCampaigns() up to the await of graphql
SlotCall(t, query) ==
  /\ pc[t] = "idle"
  /\ pc' = [pc EXCEPT ![t] = "slot"]
  /\ req' = [req EXCEPT ![t] = GraphqlRequest(query)]
  /\ ret' = [ret EXCEPT ![t] = NoResult]
  /\ UNCHANGED <<client, rsp, orders, hist, auth>>

\* bookSlot / getCampaigns resumed with the response of fetch
SlotResume(t) ==
  /\ pc[t] = "slot"
  /\ rsp[t] # NoResponse
  /\ ret' = [ret EXCEPT ![t] = SlotResult(req[t].query, rsp[t])]
  /\ pc' = [pc EXCEPT ![t] = "idle"]
  /\ rsp' = [rsp EXCEPT ![t] = NoResponse]
  /\ UNCHANGED <<client, req, orders, hist, auth>>

\* the value an accessor hands back
Accessed(accessor, value) == [accessor |-> accessor, value |-> value]

\* the accessors of the client
Accessors == {"getOrderId", "getCustomerId"}

\* getOrderId() / getCustomerId(): a synchronous read of one field
AccessorCall(t, accessor) ==
  /\ pc[t] = "idle"
  /\ ret' = [ret EXCEPT ![t] =
               Return(Accessed(accessor, IF accessor = "getOrderId"
                                         THEN getOrderId ELSE getCustomerId))]
  /\ UNCHANGED <<client, pc, req, rsp, orders, hist, auth>>

\* searchProducts(term) / browseProducts(category) up to the await of fetch
SearchCall(t, endpoint) ==
  /\ pc[t] = "idle"
  /\ pc' = [pc EXCEPT ![t] = "search"]
  /\ req' = [req EXCEPT ![t] = RestRequest(endpoint)]
  /\ ret' = [ret EXCEPT ![t] = NoResult]
  /\ UNCHANGED <<client, rsp, orders, hist, auth>>

\* restApi resumed with the response of fetch
SearchResume(t) ==
  /\ pc[t] = "search"
  /\ rsp[t] # NoResponse
  /\ ret' = [ret EXCEPT ![t] = RestResult(rsp[t])]
  /\ pc' = [pc EXCEPT ![t] = "idle"]
  /\ rsp' = [rsp EXCEPT ![t] = NoResponse]
  /\ UNCHANGED <<client, req, orders, hist, auth>>

\* the lineNumbers arguments: none, or some
LineNumbers == { <<>>, <<"line1", "line2">> }

\* getProductsByLineNumbers(lineNumbers) up to the await of fetch, or to its
\* return of [] for an empty list
ProductsCall(t, lineNumbers) ==
  /\ pc[t] = "idle"
  /\ IF Len(lineNumbers) = 0
     THEN /\ ret' = [ret EXCEPT ![t] = Return([products |-> <<>>])]
          /\ UNCHANGED <<pc, req>>
     ELSE /\ pc' = [pc EXCEPT ![t] = "products"]
          /\ req' = [req EXCEPT ![t] = ProductsRequest]
          /\ ret' = [ret EXCEPT ![t] = NoResult]
  /\ UNCHANGED <<client, rsp, orders, hist, auth>>

\* getProductsByLineNumbers resumed with the response of fetch
ProductsResume(t) ==
  /\ pc[t] = "products"
  /\ rsp[t] # NoResponse
  /\ ret' = [ret EXCEPT ![t] = ProductsResult(rsp[t])]
  /\ pc' = [pc EXCEPT ![t] = "idle"]
  /\ rsp' = [rsp EXCEPT ![t] = NoResponse]
  /\ UNCHANGED <<client, req, orders, hist, auth>>

\* getOrders() up to its await of Promise.all: getPendingOrders and
\* getPreviousOrders have each run up to their await of fetch
GetOrdersCall(t) ==
  /\ pc[t] = "idle"
  /\ pc' = [pc EXCEPT ![t] = "getOrders"]
  /\ orders' = [orders EXCEPT ![t] =
                  [sub |-> [q \in OrderQueries |->
                              [pc |-> "fetch", req |-> GraphqlRequest(q),
                               rsp |-> NoResponse, out |-> NoResult]],
                   first |-> "none"]]
  /\ req' = [req EXCEPT ![t] = NoRequest]
  /\ ret' = [ret EXCEPT ![t] = NoResult]
  /\ UNCHANGED <<client, rsp, hist, auth>>

\* the backend answers one of the two requests of getOrders
OrdersRespond(t, q, response) ==
  /\ pc[t] = "getOrders"
  /\ orders[t].sub[q].pc = "fetch"
  /\ orders[t].sub[q].rsp = NoResponse
  /\ orders' = [orders EXCEPT ![t].sub[q].rsp = response]
  /\ UNCHANGED <<client, pc, req, rsp, ret, hist, auth>>

\* one of the two methods resumed with the response of its fetch.  When it
\* throws, Promise.all rejects and getOrders throws at once (the other fetch
\* is left behind: whatever it resolves to is dropped); when it returns and
\* the other has returned, getOrders returns; otherwise getOrders keeps
\* waiting.
OrdersResume(t, q) ==
  /\ pc[t] = "getOrders"
  /\ orders[t].sub[q].pc = "fetch"
  /\ orders[t].sub[q].rsp # NoResponse
  /\ LET out == OrdersContent(orders[t].sub[q].rsp)
         outs == [p \in OrderQueries |-> IF p = q THEN out ELSE orders[t].sub[p].out]
     IN  IF ~out.ok
         THEN /\ ret' = [ret EXCEPT ![t] = out]
              /\ pc' = [pc EXCEPT ![t] = "idle"]
              /\ orders' = [orders EXCEPT ![t] = NoOrders]
         ELSE IF \A p \in OrderQueries \ {q} : orders[t].sub[p].pc = "done"
              THEN /\ ret' = [ret EXCEPT ![t] = OrdersResult(outs)]
                   /\ pc' = [pc EXCEPT ![t] = "idle"]
                   /\ orders' = [orders EXCEPT ![t] =
                                   [sub |-> NoOrders.sub, first |-> orders[t].first]]
              ELSE /\ orders' = [orders EXCEPT ![t].sub[q].pc = "done",
                                               ![t].sub[q].out = out,
                                               ![t].first = q]
                   /\ UNCHANGED <<pc, ret>>
  /\ UNCHANGED <<client, req, rsp, hist, auth>>

\* time passes beyond the lifetime of the held session
Expire ==
  /\ live # 0
  /\ ~expired
  /\ expired' = TRUE
  /\ UNCHANGED <<client, pc, req, rsp, ret, orders, live, ended, auth>>

Next ==
  \/ \E t \in Callers : LoginCall(t)
  \/ \E t \in Callers : \E response \in ResponsesFor(req[t].query) : Respond(t, response)
  \/ \E t \in Callers : LoginResume(t)
  \/ \E t \in Callers : LogoutCall(t)
  \/ \E t \in Callers : LogoutResume(t)
  \/ \E t \in Callers : \E query \in Operations : OperationCall(t, query)
  \/ \E t \in Callers : \E orderId \in {Null, OrderIdArgument} : TrolleyCall(t, orderId)
  \/ \E t \in Callers : \E query \in TrolleyMutations :
       \E orderId \in {Null, OrderIdArgument} : TrolleyMutationCall(t, query, orderId)
  \/ \E t \in Callers : OperationResume(t)
  \/ \E t \in Callers : \E query \in SlotOperations : SlotCall(t, query)
  \/ \E t \in Callers : SlotResume(t)
  \/ \E t \in Callers : \E accessor \in Accessors : AccessorCall(t, accessor)
  \/ \E t \in Callers : \E endpoint \in {"search", "browse"} : SearchCall(t, endpoint)
  \/ \E t \in Callers : SearchResume(t)
  \/ \E t \in Callers : \E lineNumbers \in LineNumbers : ProductsCall(t, lineNumbers)
  \/ \E t \in Callers : ProductsResume(t)
  \/ \E t \in Callers : GetOrdersCall(t)
  \/ \E t \in Callers : \E q \in OrderQueries :
       \E response \in ResponsesFor(q) : OrdersRespond(t, q, response)
  \/ \E t \in Callers : \E q \in OrderQueries : OrdersResume(t, q)
  \/ Expire

Spec == Init /\ [][Next]_vars

\* ------------------------------------------------------------------------
\* SpecRace: two tasks logging in on one client
\* ------------------------------------------------------------------------

\* the tasks call login whenever they are idle; each runs from its call to
\* its await of fetch, and from the response of fetch to its return, without
\* the other task running in between
NextRace ==
  \/ \E t \in Tasks : LoginCall(t)
  \/ \E t \in Tasks : \E response \in ResponsesFor(req[t].query) : Respond(t, response)
  \/ \E t \in Tasks : LoginResume(t)

SpecRace == Init /\ [][NextRace]_vars

\* ------------------------------------------------------------------------
\* SpecAuth: runWithAuth in one CLI process
\* ------------------------------------------------------------------------

\* the caller that the CLI process is
Cli == "t1"

\* the session a previous process persisted and this process was given
PriorSession == SessionOf(0)

\* the substrings whose presence in an error message marks an
\* authentication failure
AuthTokens == {"401", "Unauthorized", "UNAUTHENTICATED"}

\* the signature test of the policy: the message contains one of the tokens
IsAuthError(msg) == \E i \in 1..Len(msg) : msg[i] \in AuthTokens

\* the taxonomy of the errors the client throws, read off the message prefix
ErrorKind(msg) ==
  CASE msg[1] = "HTTP" -> "TransportError"
    [] msg[1] = "GraphQL" -> "ProtocolError"
    [] msg[1] = "Login" -> "AuthenticationError"
    [] OTHER -> "DomainFailure"

\* an entry of the record of the current runWithAuth call
Event(call, held, response) == [call |-> call, held |-> held, response |-> response]

\* the CredentialSource: a username and a password to log in with can be
\* resolved; a bearer token in the environment bypasses login
CredentialsAvailable ==
  /\ getCredentialsFromEnv.accessToken = Null
  /\ getCredentialsFromEnv.username # Null
  /\ getCredentialsFromEnv.password # Null

\* the client of the process: it holds the persisted session, if any, with
\* the bearer token of the environment taking precedence
InitAuth ==
  /\ env \in Envs
  /\ config \in {NoConfig, ConfigOf(PriorSession)}
  /\ accessToken = OrElse(getCredentialsFromEnv.accessToken, config.accessToken)
  /\ refreshToken = config.refreshToken
  /\ customerId = config.customerId
  /\ customerOrderId = config.customerOrderId
  /\ defaultBranchId = config.defaultBranchId
  /\ pc = [t \in Tasks |-> "idle"]
  /\ req = [t \in Tasks |-> NoRequest]
  /\ rsp = [t \in Tasks |-> NoResponse]
  /\ ret = [t \in Tasks |-> NoResult]
  /\ orders = [t \in Tasks |-> NoOrders]
  /\ live = 0
  /\ ended = {}
  /\ expired = FALSE
  /\ wpc = "idle"
  /\ wop = "none"
  /\ trace = <<>>
  /\ wres = NoOutcome
  /\ wprev = "none"
  /\ proc = NoProcess
  /\ expiresAt = IF config = NoConfig THEN 0 ELSE ExpiresInOf(0) * 1000
  /\ now = 0

\* runWithAuth(operation), steps 1 and 2 up to the first await
RunWithAuth(query) ==
  /\ wpc = "idle"
  /\ wop' = query
  /\ trace' = << Event("runWithAuth", accessToken # Null, NoResponse) >>
  /\ wprev' = wres.kind
  /\ IF isAuthenticated
     THEN /\ wpc' = "first"
          /\ pc' = [pc EXCEPT ![Cli] = "operation"]
          /\ req' = [req EXCEPT ![Cli] = GraphqlRequest(query)]
          /\ wres' = NoOutcome
     ELSE IF ~CredentialsAvailable
          THEN /\ wpc' = "idle"
               /\ wres' = Outcome("NotAuthenticatedError", <<>>, NoPayload)
               /\ UNCHANGED <<pc, req>>
          ELSE /\ wpc' = "initial"
               /\ pc' = [pc EXCEPT ![Cli] = "login"]
               /\ req' = [req EXCEPT ![Cli] = GraphqlRequest("NewSession")]
               /\ wres' = NoOutcome
  /\ UNCHANGED <<client, rsp, ret, orders, hist, config, expiresAt, env, now, proc>>

\* the login of step 1 or step 4 has been answered: on success the session
\* is persisted and the operation is executed (step 2, or the one retry)
AuthLoginResume ==
  /\ wpc \in {"initial", "reauth"}
  /\ rsp[Cli] # NoResponse
  /\ trace' = Append(trace, Event("login", accessToken # Null, rsp[Cli]))
  /\ rsp' = [rsp EXCEPT ![Cli] = NoResponse]
  /\ UNCHANGED <<wop, wprev, ret, orders, hist, env, now, proc>>
  /\ LET result == LoginResult(rsp[Cli]) IN
       IF result.ok
       THEN /\ LoginInstall(SessionFields(result.val))
            /\ config' = ConfigOf(SessionFields(result.val))
            /\ expiresAt' = ExpiresAtOf(result.val)
            /\ wpc' = IF wpc = "initial" THEN "first" ELSE "retry"
            /\ pc' = [pc EXCEPT ![Cli] = "operation"]
            /\ req' = [req EXCEPT ![Cli] = GraphqlRequest(wop)']
            /\ UNCHANGED wres
       ELSE /\ UNCHANGED <<client, config, expiresAt, req>>
            /\ wpc' = "idle"
            /\ pc' = [pc EXCEPT ![Cli] = "idle"]
            /\ \E kind \in IF wpc = "initial"
                            THEN {ErrorKind(result.msg)}
                            ELSE {ErrorKind(result.msg), "ReauthenticationFailedError"} :
                 wres' = Outcome(kind, result.msg, NoPayload)

\* runWithAuth whose one re-authentication is spent for the process once a
\* call has ended in ReauthenticationFailedError
AuthOperationResume_SpentBudget ==
  /\ wpc \in {"first", "retry"}
  /\ rsp[Cli] # NoResponse
  /\ trace' = Append(trace, Event("operation", accessToken # Null, rsp[Cli]))
  /\ rsp' = [rsp EXCEPT ![Cli] = NoResponse]
  /\ UNCHANGED <<client, wop, wprev, ret, orders, hist, config, expiresAt, env, now, proc>>
  /\ LET result == OperationResult(wop, rsp[Cli]) IN
       IF result.ok
       THEN /\ wres' = Outcome("ok", <<>>, result.val)
            /\ wpc' = "idle"
            /\ pc' = [pc EXCEPT ![Cli] = "idle"]
            /\ UNCHANGED req
       ELSE IF /\ wpc = "first" /\ IsAuthError(result.msg)
               /\ wprev # "ReauthenticationFailedError"
            THEN IF ~CredentialsAvailable
                 THEN /\ wres' = Outcome("ReauthenticationFailedError", result.msg, NoPayload)
                      /\ wpc' = "idle"
                      /\ pc' = [pc EXCEPT ![Cli] = "idle"]
                      /\ UNCHANGED req
                 ELSE /\ wpc' = "reauth"
                      /\ pc' = [pc EXCEPT ![Cli] = "login"]
                      /\ req' = [req EXCEPT ![Cli] = GraphqlRequest("NewSession")]
                      /\ UNCHANGED wres
            ELSE /\ wres' = IF wpc = "retry"
                            THEN Outcome("ReauthenticationFailedError", result.msg, NoPayload)
                            ELSE Outcome(ErrorKind(result.msg), result.msg, NoPayload)
                 /\ wpc' = "idle"
                 /\ pc' = [pc EXCEPT ![Cli] = "idle"]
                 /\ UNCHANGED req

\* runWithAuth that re-authenticates once more when the retry fails
\* 401-shaped
AuthOperationResume_RetryTwice ==
  /\ wpc \in {"first", "retry"}
  /\ rsp[Cli] # NoResponse
  /\ trace' = Append(trace, Event("operation", accessToken # Null, rsp[Cli]))
  /\ rsp' = [rsp EXCEPT ![Cli] = NoResponse]
  /\ UNCHANGED <<client, wop, wprev, ret, orders, hist, config, expiresAt, env, now, proc>>
  /\ LET result == OperationResult(wop, rsp[Cli]) IN
       IF result.ok
       THEN /\ wres' = Outcome("ok", <<>>, result.val)
            /\ wpc' = "idle"
            /\ pc' = [pc EXCEPT ![Cli] = "idle"]
            /\ UNCHANGED req
       ELSE IF /\ Len(trace) <= 4
               /\ IsAuthError(result.msg)
            THEN IF ~CredentialsAvailable
                 THEN /\ wres' = Outcome("ReauthenticationFailedError", result.msg, NoPayload)
                      /\ wpc' = "idle"
                      /\ pc' = [pc EXCEPT ![Cli] = "idle"]
                      /\ UNCHANGED req
                 ELSE /\ wpc' = "reauth"
                      /\ pc' = [pc EXCEPT ![Cli] = "login"]
                      /\ req' = [req EXCEPT ![Cli] = GraphqlRequest("NewSession")]
                      /\ UNCHANGED wres
            ELSE /\ wres' = IF wpc = "retry"
                            THEN Outcome("ReauthenticationFailedError", result.msg, NoPayload)
                            ELSE Outcome(ErrorKind(result.msg), result.msg, NoPayload)
                 /\ wpc' = "idle"
                 /\ pc' = [pc EXCEPT ![Cli] = "idle"]
                 /\ UNCHANGED req

\* the operation has been answered: steps 3 to 6
AuthOperationResume ==
  /\ wpc \in {"first", "retry"}
  /\ rsp[Cli] # NoResponse
  /\ trace' = Append(trace, Event("operation", accessToken # Null, rsp[Cli]))
  /\ rsp' = [rsp EXCEPT ![Cli] = NoResponse]
  /\ UNCHANGED <<client, wop, wprev, ret, orders, hist, config, expiresAt, env, now, proc>>
  /\ LET result == OperationResult(wop, rsp[Cli]) IN
       IF result.ok
       THEN /\ wres' = Outcome("ok", <<>>, result.val)
            /\ wpc' = "idle"
            /\ pc' = [pc EXCEPT ![Cli] = "idle"]
            /\ UNCHANGED req
       ELSE IF wpc = "first" /\ IsAuthError(result.msg)
            THEN IF ~CredentialsAvailable
                 THEN /\ wres' = Outcome("ReauthenticationFailedError", result.msg, NoPayload)
                      /\ wpc' = "idle"
                      /\ pc' = [pc EXCEPT ![Cli] = "idle"]
                      /\ UNCHANGED req
                 ELSE /\ wpc' = "reauth"
                      /\ pc' = [pc EXCEPT ![Cli] = "login"]
                      /\ req' = [req EXCEPT ![Cli] = GraphqlRequest("NewSession")]
                      /\ UNCHANGED wres
            ELSE /\ wres' = IF wpc = "retry"
                            THEN Outcome("ReauthenticationFailedError", result.msg, NoPayload)
                            ELSE Outcome(ErrorKind(result.msg), result.msg, NoPayload)
                 /\ wpc' = "idle"
                 /\ pc' = [pc EXCEPT ![Cli] = "idle"]
                 /\ UNCHANGED req

NextAuth ==
  \/ \E query \in Operations : RunWithAuth(query)
  \/ \E response \in ResponsesFor(req[Cli].query) : Respond(Cli, response)
  \/ AuthLoginResume
  \/ AuthOperationResume

SpecAuth == InitAuth /\ [][NextAuth]_vars

\* SpecAuth under the assumption that every network call returns: a pending
\* request is answered, and the event loop resumes the call that awaits it
SpecAuthLive ==
  /\ InitAuth
  /\ [][NextAuth]_vars
  /\ WF_vars(\E response \in ResponsesFor(req[Cli].query) : Respond(Cli, response))
  /\ WF_vars(AuthLoginResume)
  /\ WF_vars(AuthOperationResume)

\* ------------------------------------------------------------------------
\* SpecCli: CLI processes run one after another on one config file
\* ------------------------------------------------------------------------

\* the commands of main's switch that are followed here
CliCommands == {"login", "logout", "check", "whoami", "cancel-order"}

\* the commands that hand an operation to withAuth
OperationCommands == {"whoami", "cancel-order"}

\* a word that main's switch does not know
UnknownCommand == "frobnicate"

\* the operation a command hands to withAuth
QueryOf(command) ==
  IF command = "whoami" THEN "GetAccountInfoAndMembership" ELSE "CancelOrder"

\* the environments of the runs: a bearer token or none, a username with its
\* password or neither
CliEnvs ==
  { e \in Envs : /\ e["WAITROSE_TOKEN"] = Null
                 /\ e["WAITROSE_EMAIL"] = Null
                 /\ (e["WAITROSE_USERNAME"] = Null) = (e["WAITROSE_PASSWORD"] = Null) }

\* error(message); process.exit(1), with an exit code of 0
Fail_ExitZero(command, message) == Process(command, "exited", 0, message, <<>>)

\* error(message); process.exit(1)
Fail(command, message) == Process(command, "exited", 1, message, <<>>)

\* the command returned and main with it: the process ends with exit code 0
Done(command, output) == Process(command, "exited", 0, <<>>, output)

Running(command) == Process(command, "running", 0, <<>>, <<>>)

\* what cmdCheck reports
CheckReport(expired_now) ==
  IF Truthy(config.accessToken)
  THEN IF expired_now THEN <<"Token", "expired">> ELSE <<"Token", "valid">>
  ELSE <<"Not", "logged", "in">>

\* a new process: nothing of the previous one is left but the config file
\* and the environment
ProcessStart ==
  /\ proc.state # "running"
  /\ pc[Cli] = "idle"
  /\ rsp' = [t \in Tasks |-> NoResponse]
  /\ ret' = [t \in Tasks |-> NoResult]
  /\ orders' = [t \in Tasks |-> NoOrders]
  /\ wpc' = "idle"
  /\ wop' = "none"
  /\ trace' = <<>>
  /\ wres' = NoOutcome
  /\ wprev' = "none"
  /\ UNCHANGED <<hist, env, now>>

\* new WaitroseClient()
NewClient ==
  /\ accessToken' = Null
  /\ refreshToken' = Null
  /\ customerId' = Null
  /\ customerOrderId' = Null
  /\ defaultBranchId' = Null

\* the client that withAuth and getAuthenticatedClient work on: it holds the
\* persisted session, if any, with the bearer token of the environment
\* taking precedence
LoadClient ==
  /\ accessToken' = OrElse(getCredentialsFromEnv.accessToken, config.accessToken)
  /\ refreshToken' = config.refreshToken
  /\ customerId' = config.customerId
  /\ customerOrderId' = config.customerOrderId
  /\ defaultBranchId' = config.defaultBranchId

\* main with a command its switch does not know
MainUnknown(command) ==
  /\ ProcessStart
  /\ command \notin CliCommands
  /\ NewClient
  /\ proc' = Fail(command, <<"Unknown", "command", ":", command>>)
  /\ UNCHANGED <<pc, req, config, expiresAt>>

\* main with "check": cmdCheck
MainCheck ==
  /\ ProcessStart
  /\ NewClient
  /\ proc' = Done("check", CheckReport(expiresAt # 0 /\ now > expiresAt))
  /\ UNCHANGED <<pc, req, config, expiresAt>>

\* main with "login": cmdLogin up to the await of client.login, or to its
\* exit when an email or a password is missing
MainLogin(args, typed) ==
  /\ ProcessStart
  /\ NewClient
  /\ LET email == OrElse(OrElse(args[1], OrElse(env["WAITROSE_USERNAME"],
                                                env["WAITROSE_EMAIL"])), typed)
         password == OrElse(OrElse(args[2], env["WAITROSE_PASSWORD"]), typed)
     IN IF ~Truthy(email) \/ ~Truthy(password)
        THEN /\ proc' = Fail("login", <<"Email", "and", "password", "are", "required">>)
             /\ UNCHANGED <<pc, req>>
        ELSE /\ proc' = Running("login")
             /\ pc' = [pc EXCEPT ![Cli] = "login"]
             /\ req' = [req EXCEPT ![Cli] = GraphqlRequest("NewSession")']
  /\ UNCHANGED <<config, expiresAt>>

\* cmdLogin resumed with the response of the login: the session is saved, or
\* the catch reports the failure and exits
CmdLoginResume_NoSave ==
  /\ proc.state = "running"
  /\ proc.command = "login"
  /\ pc[Cli] = "login"
  /\ rsp[Cli] # NoResponse
  /\ LET result == LoginResult(rsp[Cli]) IN
       /\ IF result.ok
          THEN /\ LoginInstall(SessionFields(result.val))
               /\ proc' = Done("login", <<"Logged", "in">>)
          ELSE /\ UNCHANGED client
               /\ proc' = Fail("login", <<"Login", "failed", ":">> \o result.msg)
       /\ ret' = [ret EXCEPT ![Cli] = result]
  /\ pc' = [pc EXCEPT ![Cli] = "idle"]
  /\ rsp' = [rsp EXCEPT ![Cli] = NoResponse]
  /\ UNCHANGED <<req, orders, hist, wpc, wop, trace, wres, wprev, env, now, config, expiresAt>>

\* cmdLogin whose catch clears the config before it exits
CmdLoginResume_ClearsOnFailure ==
  /\ proc.state = "running"
  /\ proc.command = "login"
  /\ pc[Cli] = "login"
  /\ rsp[Cli] # NoResponse
  /\ LET result == LoginResult(rsp[Cli]) IN
       /\ IF result.ok
          THEN /\ LoginInstall(SessionFields(result.val))
               /\ config' = ConfigOf(SessionFields(result.val))
               /\ expiresAt' = ExpiresAtOf(result.val)
               /\ proc' = Done("login", <<"Logged", "in">>)
          ELSE /\ UNCHANGED client
               /\ config' = NoConfig
               /\ expiresAt' = 0
               /\ proc' = Fail("login", <<"Login", "failed", ":">> \o result.msg)
       /\ ret' = [ret EXCEPT ![Cli] = result]
  /\ pc' = [pc EXCEPT ![Cli] = "idle"]
  /\ rsp' = [rsp EXCEPT ![Cli] = NoResponse]
  /\ UNCHANGED <<req, orders, hist, wpc, wop, trace, wres, wprev, env, now>>

\* cmdLogin resumed with the response of the login: the session is saved, or
\* the catch reports the failure and exits
CmdLoginResume ==
  /\ proc.state = "running"
  /\ proc.command = "login"
  /\ pc[Cli] = "login"
  /\ rsp[Cli] # NoResponse
  /\ LET result == LoginResult(rsp[Cli]) IN
       /\ IF result.ok
          THEN /\ LoginInstall(SessionFields(result.val))
               /\ config' = ConfigOf(SessionFields(result.val))
               /\ expiresAt' = ExpiresAtOf(result.val)
               /\ proc' = Done("login", <<"Logged", "in">>)
          ELSE /\ UNCHANGED <<client, config, expiresAt>>
               /\ proc' = Fail("login", <<"Login", "failed", ":">> \o result.msg)
       /\ ret' = [ret EXCEPT ![Cli] = result]
  /\ pc' = [pc EXCEPT ![Cli] = "idle"]
  /\ rsp' = [rsp EXCEPT ![Cli] = NoResponse]
  /\ UNCHANGED <<req, orders, hist, wpc, wop, trace, wres, wprev, env, now>>

\* main with "logout": cmdLogout up to the await of client.logout, or, when
\* getAuthenticatedClient throws, to its end
MainLogout(thrown) ==
  /\ ProcessStart
  /\ LoadClient
  /\ IF thrown
     THEN /\ config' = NoConfig
          /\ expiresAt' = 0
          /\ proc' = Done("logout", <<"Logged", "out">>)
          /\ UNCHANGED <<pc, req>>
     ELSE /\ proc' = Running("logout")
          /\ pc' = [pc EXCEPT ![Cli] = "logout"]
          /\ req' = [req EXCEPT ![Cli] = GraphqlRequest("DeleteSession")']
          /\ UNCHANGED <<config, expiresAt>>

\* the session id of a token that a login response carried, 0 for any other
TokenSession(token) == IF Len(token) = 2 THEN token[2] ELSE 0

\* cmdLogout that keeps the config when the backend refused the logout
CmdLogoutResume_KeepsOnFailure ==
  /\ proc.state = "running"
  /\ proc.command = "logout"
  /\ pc[Cli] = "logout"
  /\ rsp[Cli] # NoResponse
  /\ LET result == GraphqlResult(rsp[Cli]) IN
       /\ IF result.ok
          THEN /\ LogoutClear
               /\ ended' = ended \cup ({TokenSession(accessToken)} \ {0})
               /\ config' = NoConfig
               /\ expiresAt' = 0
          ELSE UNCHANGED <<client, ended, config, expiresAt>>
       /\ ret' = [ret EXCEPT ![Cli] = IF result.ok THEN Return(NoPayload) ELSE result]
  /\ proc' = Done("logout", <<"Logged", "out">>)
  /\ pc' = [pc EXCEPT ![Cli] = "idle"]
  /\ rsp' = [rsp EXCEPT ![Cli] = NoResponse]
  /\ UNCHANGED <<req, orders, live, expired, wpc, wop, trace, wres, wprev, env, now>>

\* cmdLogout resumed with the response of the logout: whatever it is, the
\* config is cleared and the command succeeds
CmdLogoutResume ==
  /\ proc.state = "running"
  /\ proc.command = "logout"
  /\ pc[Cli] = "logout"
  /\ rsp[Cli] # NoResponse
  /\ LET result == GraphqlResult(rsp[Cli]) IN
       /\ IF result.ok
          THEN /\ LogoutClear
               /\ ended' = ended \cup ({TokenSession(accessToken)} \ {0})
          ELSE UNCHANGED <<client, ended>>
       /\ ret' = [ret EXCEPT ![Cli] = IF result.ok THEN Return(NoPayload) ELSE result]
  /\ config' = NoConfig
  /\ expiresAt' = 0
  /\ proc' = Done("logout", <<"Logged", "out">>)
  /\ pc' = [pc EXCEPT ![Cli] = "idle"]
  /\ rsp' = [rsp EXCEPT ![Cli] = NoResponse]
  /\ UNCHANGED <<req, orders, live, expired, wpc, wop, trace, wres, wprev, env, now>>

\* main with a command that uses withAuth, up to the call of withAuth, or to
\* the exit of cancel-order when it is given no order id
MainOperation(command, has_argument) ==
  /\ ProcessStart
  /\ command \in OperationCommands
  /\ IF command = "cancel-order" /\ ~has_argument
     THEN /\ NewClient
          /\ proc' = Fail(command, <<"Usage", ":", "waitrose", "cancel-order">>)
     ELSE /\ LoadClient
          /\ proc' = Running(command)
  /\ UNCHANGED <<pc, req, config, expiresAt>>

\* the command calls withAuth with its operation
CmdRun ==
  /\ proc.state = "running"
  /\ proc.command \in OperationCommands
  /\ trace = <<>>
  /\ RunWithAuth(QueryOf(proc.command))

\* withAuth has returned or thrown: the command returns, or the catch of
\* main reports the error's message and exits
CmdExit ==
  /\ proc.state = "running"
  /\ proc.command \in OperationCommands
  /\ trace # <<>>
  /\ wpc = "idle"
  /\ proc' = IF wres.kind = "ok"
             THEN Done(proc.command, <<"ok">>)
             ELSE Fail(proc.command, wres.msg)
  /\ UNCHANGED <<client, pc, req, rsp, ret, orders, hist,
                 wpc, wop, trace, wres, wprev, config, expiresAt, env, now>>

InitCli ==
  /\ ClientInit
  /\ pc = [t \in Tasks |-> "idle"]
  /\ req = [t \in Tasks |-> NoRequest]
  /\ rsp = [t \in Tasks |-> NoResponse]
  /\ ret = [t \in Tasks |-> NoResult]
  /\ orders = [t \in Tasks |-> NoOrders]
  /\ live = 0
  /\ ended = {}
  /\ expired = FALSE
  /\ wpc = "idle"
  /\ wop = "none"
  /\ trace = <<>>
  /\ wres = NoOutcome
  /\ wprev = "none"
  /\ env \in CliEnvs
  /\ config \in {NoConfig, ConfigOf(PriorSession)}
  /\ proc = NoProcess
  /\ expiresAt = IF config = NoConfig THEN 0 ELSE ExpiresInOf(0) * 1000
  /\ now = 0

NextCli ==
  \/ MainUnknown(UnknownCommand)
  \/ MainCheck
  \/ \E args \in {<<Null, Null>>, <<<<"set">>, <<"set">>>>} :
       \E typed \in {Null, <<"set">>} : MainLogin(args, typed)
  \/ CmdLoginResume
  \/ \E thrown \in BOOLEAN : MainLogout(thrown)
  \/ CmdLogoutResume
  \/ \E command \in OperationCommands :
       \E has_argument \in BOOLEAN : MainOperation(command, has_argument)
  \/ CmdRun
  \/ AuthLoginResume
  \/ AuthOperationResume
  \/ CmdExit
  \/ \E response \in ResponsesFor(req[Cli].query) : Respond(Cli, response)

SpecCli == InitCli /\ [][NextCli]_vars

\* ------------------------------------------------------------------------
\* SpecClock: login and check processes while the clock advances
\* ------------------------------------------------------------------------

\* the latest instant of the clock
MaxNow == 930000

\* the steps of the clock in milliseconds: half of the buffer of
\* isTokenExpired, and the lifetime of a session less that buffer
Ticks == {30000, 840000}

\* time passes
Tick(d) ==
  /\ now + d <= MaxNow
  /\ now' = now + d
  /\ UNCHANGED <<client, pc, req, rsp, ret, orders, hist,
                 wpc, wop, trace, wres, wprev, config, env, proc, expiresAt>>

NextClock ==
  \/ \E args \in {<<Null, Null>>, <<<<"set">>, <<"set">>>>} :
       \E typed \in {Null, <<"set">>} : MainLogin(args, typed)
  \/ \E response \in ResponsesFor(req[Cli].query) : Respond(Cli, response)
  \/ CmdLoginResume
  \/ MainCheck
  \/ \E d \in Ticks : Tick(d)

SpecClock == InitCli /\ [][NextClock]_vars

\* ------------------------------------------------------------------------
\* SpecSearch: the search methods with their options
\* ------------------------------------------------------------------------

\* a property of a JavaScript object: absent, present with the value
\* undefined, or present with a number or a string
Absent == [kind |-> "absent", num |-> 0, str |-> ""]

Undefined == [kind |-> "undefined", num |-> 0, str |-> ""]

Num(n) == [kind |-> "value", num |-> n, str |-> ""]

Str(s) == [kind |-> "value", num |-> 0, str |-> s]

\* the keys of SearchQueryParams that are followed here
ParamKeys == {"start", "sortBy", "size"}

\* a ?? b : reading an absent property gives undefined
Coalesce(a, b) == IF a.kind = "value" THEN a ELSE b

\* { ...base, ...options }: every own property of options, one whose value
\* is undefined included, replaces that of base
Spread(base, options) ==
  [k \in ParamKeys |-> IF options[k].kind # "absent" THEN options[k] ELSE base[k]]

\* JSON.stringify of an object: a property whose value is undefined is left out
Stringify(object) ==
  [k \in ParamKeys |-> IF object[k].kind = "undefined" THEN Absent ELSE object[k]]

\* the queryParams of searchProducts / browseProducts / getPromotionProducts
QueryParams(options) ==
  Spread([start  |-> Coalesce(options.start, Num(0)),
          sortBy |-> Coalesce(options.sortBy, Str("RELEVANCE")),
          size   |-> Absent],
         options)

\* the largest page and page size asked for
MaxPage == 3

\* the endpoint and the subject of a search method
SearchMethods ==
  { [name |-> "searchProducts", endpoint |-> "search", subject |-> "searchTerm"],
    [name |-> "browseProducts", endpoint |-> "browse", subject |-> "category"],
    [name |-> "getPromotionProducts", endpoint |-> "search", subject |-> "promotionId"] }

\* the options a caller gives; the CLI search command gives a size and the
\* key sortBy, with the value undefined when --sort is missing
SearchOptions ==
  [start  : {Absent, Undefined, Num(0), Num(24)},
   sortBy : {Absent, Undefined, Str("PRICE_LOW_2_HIGH")},
   size   : {Absent, Num(10)}]

\* the body that restApi sends for a search method called with options
SearchRequest(method, options) ==
  [query |-> method.endpoint,
   authorization |-> IF Truthy(accessToken) THEN <<"Bearer", accessToken>> ELSE NoHeader,
   path |-> IF Truthy(customerId) THEN customerId ELSE <<"-1">>,
   branchId |-> IF Truthy(defaultBranchId) THEN defaultBranchId ELSE Null,
   subject |-> method.subject,
   params |-> Stringify(QueryParams(options))]

\* searchProducts / browseProducts / getPromotionProducts with options, up to
\* the await of fetch
SearchOptionsCall(t, method, options) ==
  /\ pc[t] = "idle"
  /\ pc' = [pc EXCEPT ![t] = "search"]
  /\ req' = [req EXCEPT ![t] = SearchRequest(method, options)]
  /\ ret' = [ret EXCEPT ![t] = NoResult]
  /\ UNCHANGED <<client, rsp, orders, hist, auth>>

\* a page offset that counts pages from 0
PageStart_FromZero(page, pageSize) == page * pageSize

\* the offset of a page: (page - 1) * pageSize
PageStart(page, pageSize) == (page - 1) * pageSize

\* searchProductsPage(term, page, pageSize): searchProducts with the start
\* and the size of the page
SearchPageCall(t, page, pageSize) ==
  /\ pc[t] = "idle"
  /\ pc' = [pc EXCEPT ![t] = "search"]
  /\ req' = [req EXCEPT ![t] =
               SearchRequest(CHOOSE m \in SearchMethods : m.name = "searchProducts",
                             [start |-> Num(PageStart(page, pageSize)),
                              sortBy |-> Absent,
                              size |-> Num(pageSize)])]
  /\ ret' = [ret EXCEPT ![t] = NoResult]
  /\ UNCHANGED <<client, rsp, orders, hist, auth>>

NextSearch ==
  \/ \E t \in Callers : \E method \in SearchMethods :
       \E options \in SearchOptions : SearchOptionsCall(t, method, options)
  \/ \E t \in Callers : \E page \in 1..MaxPage :
       \E pageSize \in 1..MaxPage : SearchPageCall(t, page, pageSize)
  \/ \E t \in Callers : \E response \in ResponsesFor(req[t].query) : Respond(t, response)
  \/ \E t \in Callers : SearchResume(t)

SpecSearch == Init /\ [][NextSearch]_vars

\* ------------------------------------------------------------------------
\* Claims about runWithAuth (checked under SpecAuth)
\* ------------------------------------------------------------------------

\* the attempts of the operation and the logins of the current call
OperationEvents == {i \in DOMAIN trace : trace[i].call = "operation"}

LoginEvents == {i \in DOMAIN trace : trace[i].call = "login"}

\* a response that makes the operation fail, read off the raw response
FailsOperation(query, r) ==
  \/ r.status < 200 \/ r.status > 299
  \/ Len(r.errors) > 0
  \/ query = "CancelOrder" /\ Len(r.data.failures) > 0

\* a response that makes the operation fail with a 401-shaped error: status
\* 401, or one of the auth tokens in the text that ends up in the message
AuthShaped(query, r) ==
  IF r.status < 200 \/ r.status > 299
  THEN r.status = 401 \/ IsAuthError(r.text)
  ELSE IF Len(r.errors) > 0
       THEN \E i \in 1..Len(r.errors) : IsAuthError(r.errors[i].message)
       ELSE /\ query = "CancelOrder"
            /\ \E i \in 1..Len(r.data.failures) : IsAuthError(r.data.failures[i].message)

\* a response that makes login return a session
AcceptsLogin(r) ==
  /\ r.status >= 200 /\ r.status <= 299
  /\ Len(r.errors) = 0
  /\ Len(r.data.failures) = 0

\* C1 as stated: a finished call all of whose attempts failed 401-shaped made
\* exactly two attempts and ended in ReauthenticationFailedError.
C1_AlwaysUnauthorizedTwoAttempts ==
  (/\ wpc = "idle"
   /\ OperationEvents # {}
   /\ \A i \in OperationEvents : AuthShaped(wop, trace[i].response))
  => /\ Cardinality(OperationEvents) = 2
     /\ wres.kind = "ReauthenticationFailedError"

\* C1 amended: no call makes a third attempt; a finished call all of whose
\* attempts failed 401-shaped ended in a terminal error, after exactly two
\* attempts and with ReauthenticationFailedError when the re-login was made
\* and succeeded, and after the single attempt when the credentials were
\* unavailable or the re-login failed.
C1_AtMostOneRetry ==
  /\ Cardinality(OperationEvents) <= 2
  /\ (/\ wpc = "idle"
      /\ OperationEvents # {}
      /\ \A i \in OperationEvents : AuthShaped(wop, trace[i].response))
     => \/ /\ Cardinality(OperationEvents) = 2
           /\ wres.kind = "ReauthenticationFailedError"
        \/ /\ Cardinality(OperationEvents) = 1
           /\ ~CredentialsAvailable
           /\ trace[Len(trace)].call = "operation"
           /\ wres.kind = "ReauthenticationFailedError"
        \/ /\ Cardinality(OperationEvents) = 1
           /\ CredentialsAvailable
           /\ trace[Len(trace)].call = "login"
           /\ ~AcceptsLogin(trace[Len(trace)].response)
           /\ wres.kind # "ok"

\* a call has ended in ReauthenticationFailedError after two attempts that
\* were both answered 401
C1_Witness ==
  /\ wpc = "idle"
  /\ Cardinality(OperationEvents) = 2
  /\ \A i \in OperationEvents : trace[i].response.status = 401
  /\ wres.kind = "ReauthenticationFailedError"

\* C2: a call whose operation failed 401-shaped, whose re-login returned a
\* session and whose retry succeeded returns the retry's value; if it started
\* without a session it made exactly two logins.
C2_RetryAfterReloginSucceeds ==
  (/\ wpc = "idle"
   /\ Len(trace) >= 4
   /\ trace[Len(trace) - 2].call = "operation"
   /\ AuthShaped(wop, trace[Len(trace) - 2].response)
   /\ trace[Len(trace) - 1].call = "login"
   /\ AcceptsLogin(trace[Len(trace) - 1].response)
   /\ trace[Len(trace)].call = "operation"
   /\ ~FailsOperation(wop, trace[Len(trace)].response))
  => /\ wres = Outcome("ok", <<>>, trace[Len(trace)].response.data)
     /\ ~trace[1].held => Cardinality(LoginEvents) = 2

\* a call that started without a session has logged in, been answered 401,
\* logged in again and returned the value of the retry
C2_Witness ==
  /\ wpc = "idle"
  /\ Len(trace) = 5
  /\ ~trace[1].held
  /\ trace[3].response.status = 401
  /\ Cardinality(LoginEvents) = 2
  /\ wres.kind = "ok"

\* C3: when the first attempt fails with an error that is not 401-shaped the
\* call ends there with that very error - same message, its own kind, not
\* wrapped - and makes no retry and no login after it.
C3_NonAuthErrorSurfaced ==
  \A i \in OperationEvents :
    (/\ \A j \in OperationEvents : i <= j
     /\ FailsOperation(wop, trace[i].response)
     /\ ~AuthShaped(wop, trace[i].response))
    => /\ i = Len(trace)
       /\ wpc = "idle"
       /\ pc[Cli] = "idle"
       /\ wres.msg = OperationResult(wop, trace[i].response).msg
       /\ wres.kind = (IF trace[i].response.status < 200 \/ trace[i].response.status > 299
                        THEN "TransportError"
                        ELSE IF Len(trace[i].response.errors) > 0
                             THEN "ProtocolError"
                             ELSE "DomainFailure")
       /\ \A j \in LoginEvents : j < i

\* a call that logged in first has surfaced the HTTP 500 of its only attempt
C3_Witness ==
  /\ wpc = "idle"
  /\ Len(trace) = 3
  /\ trace[2].call = "login"
  /\ trace[3].response.status = 500
  /\ wres = Outcome("TransportError", <<"HTTP", "500", ":">>, NoPayload)

\* C4: when the retry fails, whatever its error, and when the first attempt
\* fails 401-shaped while no credentials are available, the call ends there
\* in ReauthenticationFailedError carrying that attempt's error, with no
\* request left pending.
C4_ReauthenticationFailureTerminal ==
  (/\ Len(trace) >= 2
   /\ trace[Len(trace)].call = "operation"
   /\ FailsOperation(wop, trace[Len(trace)].response)
   /\ \/ Cardinality(OperationEvents) = 2
      \/ /\ AuthShaped(wop, trace[Len(trace)].response)
         /\ ~CredentialsAvailable)
  => /\ wpc = "idle"
     /\ pc[Cli] = "idle"
     /\ rsp[Cli] = NoResponse
     /\ wres.kind = "ReauthenticationFailedError"
     /\ wres.msg = OperationResult(wop, trace[Len(trace)].response).msg

\* a call on a supplied session without credentials has been answered 401
\* and ended in ReauthenticationFailedError after that one attempt
C4_Witness ==
  /\ wpc = "idle"
  /\ getCredentialsFromEnv.accessToken = Null
  /\ getCredentialsFromEnv.password = Null
  /\ Len(trace) = 2
  /\ trace[1].held
  /\ trace[2].response.status = 401
  /\ wres.kind = "ReauthenticationFailedError"

\* C5: a call made while no session is held and no credentials are available
\* ends at once in NotAuthenticatedError; no request, login or operation, has
\* been sent by the process.
C5_NoCredentialsNotAuthenticated ==
  (/\ Len(trace) >= 1
   /\ ~trace[1].held
   /\ ~CredentialsAvailable)
  => /\ Len(trace) = 1
     /\ wpc = "idle"
     /\ pc[Cli] = "idle"
     /\ req[Cli] = NoRequest
     /\ wres = Outcome("NotAuthenticatedError", <<>>, NoPayload)

\* a call without session and credentials has ended in NotAuthenticatedError
C5_Witness ==
  /\ trace = << Event("runWithAuth", FALSE, NoResponse) >>
  /\ env["WAITROSE_USERNAME"] # Null
  /\ env["WAITROSE_PASSWORD"] = Null
  /\ wres.kind = "NotAuthenticatedError"

\* ------------------------------------------------------------------------
\* Claims about WaitroseClient (checked under Spec)
\* ------------------------------------------------------------------------

\* C6: a login that fails - non-2xx status, top-level errors, or a non-empty
\* failure list in the payload - throws and changes no session field; for a
\* non-empty failure list the error message is "Login failed:" followed by
\* the failure messages joined with ",".
C6_FailedLoginKeepsSession ==
  [][\A t \in Tasks :
       (/\ pc[t] = "login" /\ pc'[t] = "idle"
        /\ \/ ~ResponseOk(rsp[t].status)
           \/ Len(rsp[t].errors) > 0
           \/ Len(rsp[t].data.failures) > 0)
       => /\ client' = client
          /\ ~ret'[t].ok
          /\ (ResponseOk(rsp[t].status) /\ Len(rsp[t].errors) = 0)
               => ret'[t].msg = <<"Login", "failed", ":">>
                                  \o JoinMessages(rsp[t].data.failures)]_vars

\* a login rejected with a failure list has returned while session 1 is held,
\* although the rejecting body carried the fields of session 2
C6_Witness ==
  /\ pc["t1"] = "idle"
  /\ req["t1"].query = "NewSession"
  /\ req["t1"].authorization = <<"Bearer", SessionOf(1).accessToken>>
  /\ ~ret["t1"].ok
  /\ ret["t1"].msg = <<"Login", "failed", ":", "Account", "locked", ",", "401">>
  /\ client = <<SessionOf(1).accessToken, SessionOf(1).refreshToken,
                SessionOf(1).customerId, SessionOf(1).customerOrderId,
                SessionOf(1).defaultBranchId>>

\* C7: when login returns a session, isAuthenticated() is true at once and
\* the held token is the non-empty token of the response.
C7_LoginAuthenticates ==
  [][\A t \in Tasks :
       (pc[t] = "login" /\ pc'[t] = "idle" /\ ret'[t].ok)
       => /\ isAuthenticated'
          /\ accessToken' = SessionOf(rsp[t].data.sid).accessToken
          /\ accessToken' \notin {Null, Empty}]_vars

\* the first login of a fresh client has returned a session
C7_Witness ==
  /\ pc["t1"] = "idle"
  /\ req["t1"] = [query |-> "NewSession", authorization |-> NoHeader]
  /\ ret["t1"].ok
  /\ ret["t1"].val.sid \in SessionIds
  /\ isAuthenticated

\* C8: the held session is either absent (five nulls) or the five fields of
\* one login response.
C8_SessionFullOrAbsent ==
  \/ client = <<Null, Null, Null, Null, Null>>
  \/ \E i \in SessionIds :
       client = <<SessionOf(i).accessToken, SessionOf(i).refreshToken,
                  SessionOf(i).customerId, SessionOf(i).customerOrderId,
                  SessionOf(i).defaultBranchId>>

\* C9: whenever logout returns, normally or by throwing, the session is
\* cleared: isAuthenticated() is false and the accessors return null.
C9_LogoutAlwaysClears ==
  [][\A t \in Tasks :
       (pc[t] = "logout" /\ pc'[t] = "idle")
       => /\ ~isAuthenticated'
          /\ getOrderId' = Null
          /\ getCustomerId' = Null]_vars

\* C10: a login that returns a session while a session is held leaves every
\* field at the value of the new response, and when the new response is
\* another session no field keeps its earlier value.
C10_LoginReplacesWholesale ==
  [][\A t \in Tasks :
       (pc[t] = "login" /\ pc'[t] = "idle" /\ ret'[t].ok /\ isAuthenticated)
       => /\ client' = <<SessionOf(rsp[t].data.sid).accessToken,
                         SessionOf(rsp[t].data.sid).refreshToken,
                         SessionOf(rsp[t].data.sid).customerId,
                         SessionOf(rsp[t].data.sid).customerOrderId,
                         SessionOf(rsp[t].data.sid).defaultBranchId>>
          /\ (SessionOf(rsp[t].data.sid).accessToken # accessToken)
               => /\ accessToken' # accessToken
                  /\ refreshToken' # refreshToken
                  /\ customerId' # customerId
                  /\ customerOrderId' # customerOrderId
                  /\ defaultBranchId' # defaultBranchId]_vars

\* a login sent with the bearer token of session 1 has returned session 2,
\* which is now held
C10_Witness ==
  /\ pc["t1"] = "idle"
  /\ req["t1"] = [query |-> "NewSession",
                  authorization |-> <<"Bearer", SessionOf(1).accessToken>>]
  /\ ret["t1"].ok
  /\ ret["t1"].val.sid = 2
  /\ customerId = SessionOf(2).customerId

\* the header of a request sent while the session `live` is the current one
BearerOfLive ==
  IF live # 0 THEN <<"Bearer", SessionOf(live).accessToken>> ELSE NoHeader

\* C11: every request a call sends - GraphQL, search API, products API, and
\* both requests of getOrders - carries an Authorization header exactly when
\* a token is held at that moment, and the header is then Bearer with the
\* token of the session installed by the last login that returned, no header
\* at all once a logout has returned since.
C11_BearerOfCurrentSession ==
  [][\A t \in Tasks :
       (pc[t] = "idle" /\ pc'[t] # "idle")
       => IF pc'[t] = "getOrders"
          THEN \A q \in OrderQueries :
                 /\ orders'[t].sub[q].req.query = q
                 /\ orders'[t].sub[q].req.authorization = BearerOfLive
                 /\ (orders'[t].sub[q].req.authorization # NoHeader) <=> (accessToken # Null)
          ELSE /\ req'[t].authorization = BearerOfLive
               /\ (req'[t].authorization # NoHeader) <=> (accessToken # Null)]_vars

\* after a login, a logout and the login of session 2, a search request is
\* in flight with the bearer token of session 2
C11_Witness ==
  /\ 1 \in ended
  /\ live = 2
  /\ pc["t1"] = "search"
  /\ req["t1"].query = "search"
  /\ req["t1"].authorization = <<"Bearer", SessionOf(2).accessToken>>

\* C12: isAuthenticated() is true exactly when a session is held - a login
\* has returned one and no logout has returned since - whether or not its
\* lifetime has run out; a step changes its value only if it is a login
\* returning a session or a logout returning, so the passing of time and a
\* call that throws leave it as it is.
C12_AuthenticatedIffSessionHeld ==
  [][/\ isAuthenticated <=> live # 0
     /\ isAuthenticated' <=> live' # 0
     /\ (isAuthenticated' # isAuthenticated)
          => \E t \in Tasks :
               /\ pc[t] \in {"login", "logout"}
               /\ pc'[t] = "idle"
               /\ ret'[t].ok
     /\ (expired' # expired /\ live' = live) => (isAuthenticated' <=> isAuthenticated)
     /\ \A t \in Tasks :
          (pc[t] # "idle" /\ pc'[t] = "idle" /\ ~ret'[t].ok)
          => (isAuthenticated' <=> isAuthenticated)]_vars

\* the lifetime of the held session has run out and an operation has failed
\* with HTTP 401, and isAuthenticated() is still true
C12_Witness ==
  /\ live # 0
  /\ expired
  /\ pc["t1"] = "idle"
  /\ req["t1"].query = "GetAccountInfoAndMembership"
  /\ ~ret["t1"].ok
  /\ ret["t1"].msg = <<"HTTP", "401", ":", "Unauthorized">>
  /\ isAuthenticated

\* C13: when a logout returns, isAuthenticated() is false; when a login
\* made after that on the same client returns a session, isAuthenticated()
\* is true again.
C13_LogoutThenLoginAgain ==
  [][\A t \in Tasks :
       /\ (pc[t] = "logout" /\ pc'[t] = "idle" /\ ret'[t].ok)
          => ~isAuthenticated'
       /\ (pc[t] = "login" /\ pc'[t] = "idle" /\ ret'[t].ok /\ ended # {})
          => isAuthenticated']_vars

\* session 1 was ended by a logout, and the login made after it, sent
\* without a token, has returned: isAuthenticated() is true
C13_Witness ==
  /\ ended = {1}
  /\ pc["t1"] = "idle"
  /\ req["t1"] = [query |-> "NewSession", authorization |-> NoHeader]
  /\ ret["t1"].ok
  /\ live # 0
  /\ isAuthenticated

\* C14 as stated: a logout sends the DeleteSession request only if a session
\* is held; called on a client without a session it sends nothing.
C14_LogoutSendsOnlyWithSession ==
  [][\A t \in Tasks :
       (pc[t] = "idle" /\ pc'[t] = "logout") => live # 0]_vars

\* the methods that go through graphql, by the await they are suspended at
RpcCalls == {"login", "logout", "operation"}

\* C15: a GraphQL call whose response has a status outside 200-299 throws
\* the error "HTTP <status>: <raw body>", also when the body is a JSON body
\* with an errors array; when one of the two methods of getOrders resumes
\* with such a response the whole call throws that error.
C15_NonOkStatusIsTransportError ==
  [][\A t \in Tasks :
       /\ (/\ pc[t] \in RpcCalls /\ pc'[t] = "idle"
           /\ (rsp[t].status < 200 \/ rsp[t].status > 299))
          => ret'[t] = [ok |-> FALSE,
                        msg |-> <<"HTTP", StatusStr(rsp[t].status), ":">> \o rsp[t].text,
                        val |-> NoPayload]
       /\ \A q \in OrderQueries :
            (/\ OrdersResume(t, q)
             /\ (orders[t].sub[q].rsp.status < 200 \/ orders[t].sub[q].rsp.status > 299))
            => /\ pc'[t] = "idle"
               /\ ret'[t] = [ok |-> FALSE,
                             msg |-> <<"HTTP", StatusStr(orders[t].sub[q].rsp.status), ":">>
                                       \o orders[t].sub[q].rsp.text,
                             val |-> NoPayload]]_vars

\* cancelOrder has thrown the transport error of an HTTP 500 whose body was
\* a JSON body with an errors array
C15_Witness ==
  /\ pc["t1"] = "idle"
  /\ req["t1"].query = "CancelOrder"
  /\ ret["t1"] = [ok |-> FALSE,
                  msg |-> <<"HTTP", "500", ":", "{", "errors", ":", "UNAUTHENTICATED", "}">>,
                  val |-> NoPayload]

\* C16: a GraphQL call whose response is 2xx throws "GraphQL Error: <the
\* messages joined with ','>" when the top-level errors array is non-empty,
\* and otherwise graphql does not throw: getAccountInfo and getTrolley
\* return the payload as it is, nested failure list included, logout
\* returns, and where login or cancelOrder throw it is their own error.
C16_ProtocolErrorIffTopLevelErrors ==
  [][\A t \in Tasks :
       (/\ pc[t] \in RpcCalls /\ pc'[t] = "idle"
        /\ rsp[t].status >= 200 /\ rsp[t].status <= 299)
       => IF Len(rsp[t].errors) > 0
          THEN ret'[t] = [ok |-> FALSE,
                          msg |-> <<"GraphQL", "Error", ":">> \o JoinMessages(rsp[t].errors),
                          val |-> NoPayload]
          ELSE /\ req[t].query \in {"GetAccountInfoAndMembership", "GetTrolley"}
                  => ret'[t] = [ok |-> TRUE, msg |-> <<>>, val |-> rsp[t].data]
               /\ req[t].query = "DeleteSession" => ret'[t].ok
               /\ ~ret'[t].ok
                  => /\ ret'[t].msg[1] \in {"Login", "Cancel"}
                     /\ Len(rsp[t].data.failures) > 0]_vars

\* getTrolley has returned a payload that nests two failures
C16_Witness ==
  /\ pc["t1"] = "idle"
  /\ req["t1"].query = "GetTrolley"
  /\ ret["t1"].ok
  /\ ret["t1"].val = Payload(0, << ApiFailure("AUTH", <<"Account", "locked">>),
                                   ApiFailure("AUTH", <<"401">>) >>)

\* C17: the path of a search or browse request holds the customer id of the
\* session held when it is sent, and "-1" when none is held: before any
\* login, and again once a logout has returned.
C17_CustomerPathOrAnonymous ==
  [][\A t \in Tasks :
       (pc[t] = "idle" /\ pc'[t] = "search")
       => /\ req'[t].query \in {"search", "browse"}
          /\ req'[t].path = IF live # 0 THEN SessionOf(live).customerId ELSE <<"-1">>]_vars

\* session 1 was ended by a logout and a browse request is in flight with
\* the path "-1"
C17_Witness ==
  /\ ended = {1}
  /\ live = 0
  /\ pc["t1"] = "search"
  /\ req["t1"].query = "browse"
  /\ req["t1"].path = <<"-1">>

\* the searchProduct payloads of the elements of a list that have one, in
\* the order of the list
ProductsIn(items) ==
  LET kept == SelectSeq(items, LAMBDA item : item.searchProduct \in Products)
  IN  [i \in 1..Len(kept) |-> kept[i].searchProduct]

\* C18: a search or browse call whose response is 2xx returns as products
\* the searchProduct payloads of the elements of componentsAndProducts that
\* have one - same order, same multiplicity, as many as there are such
\* elements - or the empty list when the envelope has no such list, and as
\* totalMatches the totalMatches of the envelope.
C18_ProductsAreTheSearchProducts ==
  [][\A t \in Tasks :
       (/\ pc[t] = "search" /\ pc'[t] = "idle"
        /\ rsp[t].status >= 200 /\ rsp[t].status <= 299)
       => /\ ret'[t].ok
          /\ ret'[t].val.totalMatches = rsp[t].data.totalMatches
          /\ ret'[t].val.products =
               (IF rsp[t].data.present
                THEN ProductsIn(rsp[t].data.componentsAndProducts)
                ELSE <<>>)
          /\ Len(ret'[t].val.products) =
               Cardinality({i \in DOMAIN rsp[t].data.componentsAndProducts :
                              rsp[t].data.componentsAndProducts[i].searchProduct # NoProduct})]_vars

\* a search has returned the same product twice, after another one, with
\* the backend's total of 7 matches
C18_Witness ==
  /\ pc["t1"] = "idle"
  /\ req["t1"].query = "search"
  /\ ret["t1"].ok
  /\ ret["t1"].val = [products |-> <<"product2", "product1", "product1">>,
                      totalMatches |-> 7]

\* the content array of the body of an orders response, [] when it has none
ContentOf(response) ==
  IF response.data.present THEN response.data.content ELSE <<>>

\* C20: getOrders sends the pending-orders and the previous-orders request
\* before either is answered; when it returns, both have been answered,
\* whichever was answered and resumed first, and `pending` is the content of
\* the response to the pending-orders request and `previous` that of the
\* response to the previous-orders request, the empty array for a response
\* without content.
C20_GetOrdersJoinsBoth ==
  [][\A t \in Tasks :
       /\ (pc[t] = "idle" /\ pc'[t] = "getOrders")
          => \A q \in OrderQueries :
               /\ orders'[t].sub[q].pc = "fetch"
               /\ orders'[t].sub[q].req.query = q
               /\ orders'[t].sub[q].rsp = NoResponse
       /\ (pc[t] = "getOrders" /\ pc'[t] = "idle" /\ ret'[t].ok)
          => /\ \A q \in OrderQueries : orders[t].sub[q].rsp # NoResponse
             /\ ret'[t].val.pending = ContentOf(orders[t].sub["GetPendingOrders"].rsp)
             /\ ret'[t].val.previous = ContentOf(orders[t].sub["GetPreviousOrders"].rsp)
             /\ ret'[t].val.pending \in {<<>>, <<"pendingOrder">>}
             /\ ret'[t].val.previous \in {<<>>, <<"previousOrder">>}]_vars

\* getOrders has returned the pending order and an empty list of previous
\* orders, the previous-orders fetch having completed first
C20_Witness ==
  /\ pc["t1"] = "idle"
  /\ orders["t1"].first = "GetPreviousOrders"
  /\ ret["t1"].ok
  /\ ret["t1"].val = [pending |-> <<"pendingOrder">>, previous |-> <<>>]

\* ------------------------------------------------------------------------
\* Claims about concurrent logins (checked under SpecRace)
\* ------------------------------------------------------------------------

\* the five held fields when they are those of session i
HeldFields(i) ==
  <<SessionOf(i).accessToken, SessionOf(i).refreshToken, SessionOf(i).customerId,
    SessionOf(i).customerOrderId, SessionOf(i).defaultBranchId>>

\* the held fields are all absent or all of one login response
FullOrAbsent ==
  \/ client = <<Null, Null, Null, Null, Null>>
  \/ \E i \in SessionIds : client = HeldFields(i)

\* C21: while two tasks log in on one client, in every state a task can
\* observe the held fields are all absent or all of one login response; a
\* login that throws leaves them as they are, a login that returns leaves
\* them all at the values of its own response, and nothing else changes
\* them - so once both have returned the session of the login resumed last
\* is the one held.
C21_LoginAtomicLastWriterWins ==
  [][/\ FullOrAbsent
     /\ FullOrAbsent'
     /\ \A t \in Tasks :
          (pc[t] = "login" /\ pc'[t] = "idle")
          => IF ret'[t].ok
             THEN client' = HeldFields(rsp[t].data.sid)
             ELSE client' = client
     /\ (client' # client)
          => \E t \in Tasks : pc[t] = "login" /\ pc'[t] = "idle" /\ ret'[t].ok]_vars

\* both tasks sent their login while no token was held; the login of t1
\* returned session 2, the login of t2 returned session 1 after it, and
\* session 1 is held
C21_Witness ==
  /\ pc["t1"] = "idle" /\ pc["t2"] = "idle"
  /\ req["t1"] = [query |-> "NewSession", authorization |-> NoHeader]
  /\ req["t2"] = [query |-> "NewSession", authorization |-> NoHeader]
  /\ ret["t1"].ok /\ ret["t1"].val.sid = 2
  /\ ret["t2"].ok /\ ret["t2"].val.sid = 1
  /\ live = 1
  /\ client = HeldFields(1)

\* ------------------------------------------------------------------------
\* Claims about the accessors and the frame of the operations (checked under
\* Spec)
\* ------------------------------------------------------------------------

\* C28: a login that returns a session leaves getOrderId() and
\* getCustomerId() equal to the customerOrderId and customerId of its
\* response; an accessor returns the field it reads, that of the live session
\* while one is held, and a call of an accessor changes no field of the
\* client, no request and no response.
C28_AccessorsReadTheLogin ==
  /\ [](\A t \in Callers :
          (pc[t] = "idle" /\ ret[t].ok /\ ret[t].val \in
             { Accessed(a, v) : a \in Accessors,
                                v \in {Null} \cup { SessionOf(i)[f] : i \in SessionIds,
                                       f \in {"customerOrderId", "customerId"} } })
          => /\ ret[t].val.accessor = "getOrderId" => ret[t].val.value = customerOrderId
             /\ ret[t].val.accessor = "getCustomerId" => ret[t].val.value = customerId
             /\ live # 0 =>
                  /\ ret[t].val.accessor = "getOrderId"
                       => ret[t].val.value = SessionOf(live).customerOrderId
                  /\ ret[t].val.accessor = "getCustomerId"
                       => ret[t].val.value = SessionOf(live).customerId)
  /\ [][\A t \in Callers :
          /\ (LoginResume(t) /\ ret'[t].ok)
             => /\ getOrderId' = SessionOf(rsp[t].data.sid).customerOrderId
                /\ getCustomerId' = SessionOf(rsp[t].data.sid).customerId
          /\ (\E a \in Accessors : AccessorCall(t, a))
             => UNCHANGED <<client, pc, req, rsp, orders, hist, auth>>]_vars

\* getOrderId() has handed back the order id of session 1, which a login
\* installed and the client still holds
C28_Witness ==
  \E t \in Callers :
    /\ pc[t] = "idle"
    /\ live = 1
    /\ req[t].query = "NewSession"
    /\ ret[t] = Return(Accessed("getOrderId", SessionOf(1).customerOrderId))

\* C30: a step changes a held session field only when it is the return of a
\* login or of a logout that succeeded; every other call of the client,
\* returning or throwing, leaves the five fields as they were.
C30_OnlyLoginAndLogoutWrite ==
  [][client' # client
       => \E t \in Callers :
            /\ pc[t] \in {"login", "logout"}
            /\ pc'[t] = "idle"
            /\ ret'[t].ok]_vars

\* bookSlot has thrown on a 401 answer while the client held session 1, and
\* the client still holds every field of it
C30_Witness ==
  \E t \in Callers :
    /\ pc[t] = "idle"
    /\ req[t].query = "BookSlot"
    /\ ~ret[t].ok
    /\ ret[t].msg[1] = "HTTP"
    /\ ret[t].msg[2] = StatusStr(401)
    /\ live = 1
    /\ client = HeldFields(1)

\* ------------------------------------------------------------------------
\* Claims about runWithAuth and domain failures (checked under SpecAuth)
\* ------------------------------------------------------------------------

C22_SuppliedSessionNotValidated ==
  (Len(trace) >= 1 /\ trace[1].held)
  => /\ Len(trace) = 1
        => /\ wpc = "first"
           /\ pc[Cli] = "operation"
           /\ req[Cli].query = wop
     /\ Len(trace) >= 2 => trace[2].call = "operation"

\* the process was given a persisted session and no token in the
\* environment; its call has made one request, the operation, and returned
\* its value with the persisted token still held
C22_Witness ==
  /\ getCredentialsFromEnv.accessToken = Null
  /\ accessToken = PriorSession.accessToken
  /\ wpc = "idle"
  /\ Len(trace) = 2
  /\ trace[1].held
  /\ trace[2].call = "operation"
  /\ wres.kind = "ok"

\* a bearer token is set in the environment
EnvTokenSet ==
  env["WAITROSE_ACCESS_TOKEN"] # Null \/ env["WAITROSE_TOKEN"] # Null

C25_BudgetIsPerCall ==
  /\ pc[Cli] # "idle"
     => req[Cli].authorization =
          (IF accessToken # Null THEN <<"Bearer", accessToken>> ELSE NoHeader)
  /\ (wprev = "ReauthenticationFailedError" /\ CredentialsAvailable)
     => \A i \in OperationEvents :
          (/\ \A j \in OperationEvents : i <= j
           /\ AuthShaped(wop, trace[i].response))
          => /\ Len(trace) = i
                => /\ wpc = "reauth"
                   /\ pc[Cli] = "login"
                   /\ req[Cli].query = "NewSession"
             /\ Len(trace) > i
                => /\ trace[i + 1].call = "login"
                   /\ AcceptsLogin(trace[i + 1].response)
                      => /\ Len(trace) = i + 1
                            => /\ wpc = "retry"
                               /\ pc[Cli] = "operation"
                               /\ req[Cli].query = wop
                               /\ req[Cli].authorization =
                                    <<"Bearer", SessionOf(trace[i + 1].response.data.sid).accessToken>>
                         /\ Len(trace) > i + 1
                            => /\ trace[i + 2].call = "operation"
                               /\ Cardinality(LoginEvents) = 1

\* the call after one that ended in ReauthenticationFailedError was
\* answered 401, logged in again, retried, and returned the retry's value
C25_Witness ==
  /\ wprev = "ReauthenticationFailedError"
  /\ wpc = "idle"
  /\ Len(trace) = 4
  /\ trace[1].held
  /\ trace[2].call = "operation" /\ trace[2].response.status = 401
  /\ trace[3].call = "login"
  /\ trace[4].call = "operation"
  /\ wres.kind = "ok"

\* ------------------------------------------------------------------------
\* Claims about termination of runWithAuth (checked under SpecAuthLive)
\* ------------------------------------------------------------------------

\* C29: when every request is answered, every call of runWithAuth returns:
\* it ends with the operation's value or with an error, and at no point has
\* it made more than two attempts of the operation or more than two logins.
C29_RunWithAuthTerminates ==
  /\ [](/\ Cardinality(OperationEvents) <= 2
        /\ Cardinality(LoginEvents) <= 2
        /\ (wpc = "idle" /\ Len(trace) >= 1)
           => wres.kind \in {"ok", "TransportError", "ProtocolError", "DomainFailure",
                             "AuthenticationError", "NotAuthenticatedError",
                             "ReauthenticationFailedError"})
  /\ (wpc # "idle") ~> (wpc = "idle")

\* a call has ended in ReauthenticationFailedError after two logins and two
\* attempts of the operation
C29_Witness ==
  /\ wpc = "idle"
  /\ Cardinality(OperationEvents) = 2
  /\ Cardinality(LoginEvents) = 2
  /\ wres.kind = "ReauthenticationFailedError"

\* ------------------------------------------------------------------------
\* Claims about the CLI processes (checked under SpecCli)
\* ------------------------------------------------------------------------

\* a login of this process is answered in this step, and it succeeded
LoginAnswered ==
  /\ pc[Cli] = "login"
  /\ rsp[Cli] # NoResponse
  /\ rsp'[Cli] = NoResponse
  /\ LoginResult(rsp[Cli]).ok

\* C24: every login of a CLI process that succeeds (that of the login
\* command, the initial login of runWithAuth, a re-authentication) is
\* persisted: after the step that takes its response the config holds the
\* accessToken, refreshToken, customerId, customerOrderId and defaultBranchId
\* of that response.
C24_LoginIsPersisted ==
  [][LoginAnswered =>
       LET session == SessionOf(rsp[Cli].data.sid) IN
         /\ config'.accessToken = session.accessToken
         /\ config'.refreshToken = session.refreshToken
         /\ config'.customerId = session.customerId
         /\ config'.customerOrderId = session.customerOrderId
         /\ config'.defaultBranchId = session.defaultBranchId]_vars

\* the login command has exited with code 0 and the config holds session 2,
\* the session of its response
C24_Witness ==
  /\ proc = Done("login", <<"Logged", "in">>)
  /\ ret[Cli].ok
  /\ ret[Cli].val.sid = 2
  /\ config = ConfigOf(SessionOf(2))
  /\ accessToken = SessionOf(2).accessToken

\* C26: a process that ended on an error has a non-zero exit code and the
\* error's message on its error stream: an unknown command, an error that
\* withAuth threw, a login that failed; and a process that exited with 0
\* met no such error.
C26_ErrorsExitNonZero ==
  proc.state = "exited" =>
    /\ proc.command \notin CliCommands
         => /\ proc.exit # 0
            /\ proc.stderr = <<"Unknown", "command", ":", proc.command>>
    /\ (proc.command \in OperationCommands /\ trace # <<>> /\ wres.kind # "ok")
         => /\ proc.exit # 0
            /\ proc.stderr = wres.msg
    /\ (proc.command = "login" /\ req[Cli].query = "NewSession" /\ ~ret[Cli].ok)
         => /\ proc.exit # 0
            /\ proc.stderr = <<"Login", "failed", ":">> \o ret[Cli].msg
    /\ proc.exit = 0
         => /\ proc.command \in CliCommands
            /\ proc.stderr = <<>>
            /\ proc.command \in OperationCommands => wres.kind = "ok"
            /\ proc.command = "login" => ret[Cli].ok /\ req[Cli].query = "NewSession"

\* whoami has exited with code 1 after the backend answered its operation
\* with HTTP 500, and the message of that error is on the error stream
C26_Witness ==
  /\ proc.state = "exited"
  /\ proc.command = "whoami"
  /\ proc.exit = 1
  /\ wres.kind = "TransportError"
  /\ Len(trace) = 2
  /\ trace[2].response.status = 500
  /\ proc.stderr = wres.msg
  /\ proc.stderr[1] = "HTTP"

\* C27: the logout command ends with exit code 0 and a cleared config,
\* whether or not a session was stored and whatever the backend answered;
\* check reports "Not logged in" exactly when the config holds no access
\* token; and a cleared config stays cleared until a login succeeds.
C27_LogoutClearsConfig ==
  /\ [](/\ (proc.state = "exited" /\ proc.command = "logout")
            => proc.exit = 0 /\ config = NoConfig
        /\ (proc.state = "exited" /\ proc.command = "check")
            => /\ proc.exit = 0
               /\ (proc.stdout = <<"Not", "logged", "in">>) = (config = NoConfig))
  /\ [][/\ (proc'.command = "logout" /\ proc'.state = "exited")
            => config' = NoConfig /\ proc'.exit = 0
        /\ (config = NoConfig /\ config' # NoConfig) => LoginAnswered]_vars

\* session 1 was logged in, a logout that the backend accepted has ended it,
\* and a check has reported "Not logged in" on the cleared config
C27_Witness ==
  /\ proc = Done("check", <<"Not", "logged", "in">>)
  /\ 1 \in ended
  /\ config = NoConfig

\* ------------------------------------------------------------------------
\* Claims about what the requests of the client carry (checked under Spec)
\* ------------------------------------------------------------------------

\* the values of the sessions that a logout has ended
EndedValues ==
  { SessionOf(i)[f] : i \in ended,
                      f \in {"accessToken", "refreshToken", "customerId",
                             "customerOrderId", "defaultBranchId"} }

\* C31 as stated: once a logout has returned, and until a login returns a
\* new session, a request in flight carries nothing of the ended session: no
\* Authorization header, "-1" as the customer of a search path, and no
\* branchId or order id of the ended session.
C31_NothingOfEndedSession ==
  \A t \in Callers :
    (live = 0 /\ ended # {} /\ pc[t] # "idle")
    => /\ req[t].authorization = NoHeader
       /\ req[t].query \in {"search", "browse"}
            => /\ req[t].path = <<"-1">>
               /\ req[t].branchId \notin EndedValues
       /\ req[t].query = "products" => req[t].branchId \notin EndedValues
       /\ req[t].query = "GetTrolley" => req[t].orderId \notin EndedValues

\* C32: a login (reAuthenticate is a login) is sent without an
\* Authorization header exactly when the client holds no token; sent while a
\* token is held, it carries that token as its bearer header.
C32_LoginCarriesHeldToken ==
  [][\A t \in Callers :
       (pc[t] = "idle" /\ pc'[t] = "login")
       => /\ req'[t].query = "NewSession"
          /\ (req'[t].authorization = NoHeader) = (accessToken = Null)
          /\ accessToken # Null => req'[t].authorization = <<"Bearer", accessToken>>]_vars

\* the lifetime of session 1 has run out, and the login sent on the same
\* client carries the access token of session 1
C32_Witness ==
  \E t \in Callers :
    /\ pc[t] = "login"
    /\ live = 1
    /\ expired
    /\ req[t] = [query |-> "NewSession",
                 authorization |-> <<"Bearer", SessionOf(1).accessToken>>]

\* C33: logout sends DeleteSession with the client's fields untouched, so
\* the request carries the bearer token of the session being ended; while the
\* logout awaits, the fields stay, and they are cleared only in the step that
\* takes the response.
C33_LogoutSendsBeforeClearing ==
  /\ [](\A t \in Callers :
          (pc[t] = "logout" /\ live # 0)
          => /\ req[t] = [query |-> "DeleteSession",
                          authorization |-> <<"Bearer", SessionOf(live).accessToken>>]
             /\ accessToken = SessionOf(live).accessToken
             /\ customerId = SessionOf(live).customerId)
  /\ [][\A t \in Callers :
          /\ (pc[t] = "idle" /\ pc'[t] = "logout")
             => /\ client' = client
                /\ req'[t].authorization = AuthorizationHeader
          /\ (pc[t] = "logout" /\ client' # client)
             => /\ rsp[t] # NoResponse
                /\ pc'[t] = "idle"]_vars

\* the backend has answered the DeleteSession request, which carries the
\* token of session 1, and the client still holds every field of session 1
C33_Witness ==
  \E t \in Callers :
    /\ pc[t] = "logout"
    /\ rsp[t] # NoResponse
    /\ rsp[t].status = 200
    /\ live = 1
    /\ req[t].authorization = <<"Bearer", SessionOf(1).accessToken>>
    /\ client = HeldFields(1)

\* C34: getTrolley, updateTrolleyItems (addToTrolley, removeFromTrolley)
\* and emptyTrolley, called without an order id while the client holds no
\* customerOrderId, throw "No order ID available" and send nothing: the call
\* is over at once, and no request and no response has changed.
C34_NoOrderIdNoRequest ==
  [][\A t \in Callers :
       (/\ ~Truthy(customerOrderId)
        /\ \/ TrolleyCall(t, Null)
           \/ \E query \in TrolleyMutations : TrolleyMutationCall(t, query, Null))
       => /\ ret'[t] = Throw(<<"No", "order", "ID", "available">>)
          /\ pc'[t] = "idle"
          /\ req' = req
          /\ rsp' = rsp]_vars

\* session 1 was ended by a logout, and a trolley call without an order id
\* has thrown: the last request the caller sent is still that of the logout
C34_Witness ==
  \E t \in Callers :
    /\ ended = {1}
    /\ live = 0
    /\ pc[t] = "idle"
    /\ ret[t] = Throw(<<"No", "order", "ID", "available">>)
    /\ req[t].query = "DeleteSession"

\* ------------------------------------------------------------------------
\* Claims about the login command and the expiry tests (checked under SpecCli)
\* ------------------------------------------------------------------------

\* the login of the login command is answered in this step, and it failed
LoginCommandFails ==
  /\ proc = Running("login")
  /\ pc[Cli] = "login"
  /\ rsp[Cli] # NoResponse
  /\ rsp'[Cli] = NoResponse
  /\ ~LoginResult(rsp[Cli]).ok

\* C35: a login command whose client.login fails writes nothing to the
\* config: no step of the login process changes the config unless it takes a
\* successful login response, and the step that takes the failed one ends the
\* process with exit code 1.
C35_FailedLoginWritesNothing ==
  [][/\ (proc'.command = "login" /\ ~LoginAnswered) => config' = config
     /\ LoginCommandFails
        => /\ config' = config
           /\ proc'.state = "exited"
           /\ proc'.exit = 1]_vars

\* the login command has failed with HTTP 500 and exited with 1, and the
\* config still holds the session it held before the first process
C35_Witness ==
  /\ proc.command = "login"
  /\ proc.state = "exited"
  /\ proc.exit = 1
  /\ proc.stderr[4] = "HTTP"
  /\ ~ret[Cli].ok
  /\ config = ConfigOf(PriorSession)

\* C36: the expiresAt that the login command saves is the clock at the
\* moment the login returned plus 1000 times the expiresIn of the response:
\* 900000 milliseconds later for a lifetime of 900 seconds.
C36_ExpiresAtIsLoginTimePlusLifetime ==
  [][(proc = Running("login") /\ LoginAnswered)
       => /\ expiresAt' = now + 1000 * ExpiresInOf(rsp[Cli].data.sid)
          /\ ExpiresInOf(rsp[Cli].data.sid) = 900 => expiresAt' - now = 900000]_vars

\* the login command has saved session 1, whose lifetime is 900 seconds, 30
\* seconds after the start of the clock
C36_Witness ==
  /\ proc = Done("login", <<"Logged", "in">>)
  /\ ret[Cli].val.sid = 1
  /\ config = ConfigOf(SessionOf(1))
  /\ now = 30000
  /\ expiresAt = 930000

\* C37 as stated: whenever check reports "Token valid", isTokenExpired of the
\* config it read is false at that moment.
C37_ExpiryTestsAgree ==
  [][(MainCheck /\ proc'.stdout = <<"Token", "valid">>) => ~isTokenExpired]_vars

\* ------------------------------------------------------------------------
\* Claims about the search options (checked under SpecSearch)
\* ------------------------------------------------------------------------

\* C38 as stated: a search method called with options that give no defined
\* sortBy sends sortBy "RELEVANCE", and called with options that give no
\* defined start sends start 0; a key whose value is undefined gives no
\* defined value.
C38_DefaultsForUndefinedOptions ==
  [][\A t \in Callers : \A method \in SearchMethods : \A options \in SearchOptions :
       SearchOptionsCall(t, method, options)
       => /\ options.sortBy.kind # "value" => req'[t].params.sortBy = Str("RELEVANCE")
          /\ options.start.kind # "value" => req'[t].params.start = Num(0)]_vars

\* the index range a request asks for
RequestedRange(request) ==
  { i \in 0..(MaxPage + 1) * (MaxPage + 1) :
      /\ i >= request.params.start.num
      /\ i < request.params.start.num + request.params.size.num }

\* C39: searchProductsPage(term, page, pageSize) asks for the offset
\* (page - 1) * pageSize and the size pageSize; page 1 starts at offset 0,
\* and for one page size the index ranges of two different pages are
\* disjoint.
C39_PagesDoNotOverlap ==
  /\ [][\A t \in Callers : \A page \in 1..MaxPage : \A pageSize \in 1..MaxPage :
          SearchPageCall(t, page, pageSize)
          => /\ req'[t].params.start = Num((page - 1) * pageSize)
             /\ req'[t].params.size = Num(pageSize)
             /\ req'[t].params.sortBy = Str("RELEVANCE")
             /\ page = 1 => req'[t].params.start.num = 0]_vars
  /\ [](\A pageSize \in 1..MaxPage : \A p, q \in 1..MaxPage :
          p # q =>
            LET method == CHOOSE m \in SearchMethods : m.name = "searchProducts"
                request(page) ==
                  SearchRequest(method, [start |-> Num(PageStart(page, pageSize)),
                                         sortBy |-> Absent, size |-> Num(pageSize)])
            IN RequestedRange(request(p)) \cap RequestedRange(request(q)) = {})

\* page 2 of size 3 is being fetched: the request asks for 3 products from
\* offset 3
C39_Witness ==
  \E t \in Callers :
    /\ pc[t] = "search"
    /\ req[t].query = "search"
    /\ req[t].subject = "searchTerm"
    /\ req[t].params = [start |-> Num(3), sortBy |-> Str("RELEVANCE"), size |-> Num(3)]

====
